-------------------------- MODULE SaltStateProofs --------------------------
(***************************************************************************)
(* Lemmas about the state of one conversion run of SaltPipeline: what a    *)
(* Legal state is (its run, stage records, failures and evidence agree),   *)
(* that a Legal state passes every check load makes, and that each way     *)
(* reconcile changes a state keeps it Legal.                               *)
(***************************************************************************)
EXTENDS SaltPipeline, TLAPS

StageNames == {Stages[i] : i \in 1..8}
Status == {"ready", "running", "retryable", "terminal", "succeeded"}
Codes == {"none", "interrupted", "driver", "contract", "quality"}

Receipt == [stage : StageNames, attempts : Nat, output : Nat]
RunFailure == [stage : StageNames \cup {NoStage}, code : Codes, retryable : BOOLEAN]
Run == [status : Status, current : StageNames \cup {NoStage}, attempts : Nat,
        receipts : Seq(Receipt), failure : RunFailure]
Record == [stage : StageNames, attempt : Nat, id : Nat, accepted : BOOLEAN]
Failure == [stage : StageNames, attempt : Nat, code : Codes, retryable : BOOLEAN]
State == [run : Run, stages : Seq(Record), failures : Seq(Failure), physical : Nat,
          quality : [package : Nat, passed : BOOLEAN], published : Nat, exists : BOOLEAN]

----------------------------------------------------------------------------
(***************************************************************************)
(* The states a run goes through.                                          *)
(***************************************************************************)

\* The number of completed stages.
Done(s) == Len(s.run.receipts)

\* The records are those of the completed stages, and of a rejected output.
Records(s) ==
    /\ Len(s.stages) \in {Done(s), Done(s) + 1}
    /\ \A i \in DOMAIN s.stages : s.stages[i].attempt > 0
    /\ \A i \in 1..Done(s) :
          /\ s.stages[i].accepted
          /\ s.stages[i].id # 0
          /\ s.stages[i].stage = s.run.receipts[i].stage
          /\ s.stages[i].attempt = s.run.receipts[i].attempts
          /\ s.stages[i].id = s.run.receipts[i].output
    /\ HasRejected(s) =>
          /\ ~s.stages[Done(s) + 1].accepted
          /\ s.run.status = "terminal"
          /\ s.stages[Done(s) + 1].stage = s.run.current
          /\ s.stages[Done(s) + 1].attempt = s.run.attempts
          /\ s.run.failure.code \in {"quality", "contract"}

\* The run failed at its driver: the last failure receipt is the run's.
Active(s) == s.run.status \in {"retryable", "terminal"} /\ ~HasRejected(s)

\* The number of failures of stage k.
Count(s, k) ==
    IF k <= Done(s) THEN s.stages[k].attempt - 1
    ELSE IF k = Done(s) + 1 /\ s.run.attempts # 0
      THEN IF Active(s) THEN s.run.attempts ELSE s.run.attempts - 1
      ELSE 0

\* Failure i was of an earlier attempt, or is the run's.
FailureFits(s, i) ==
    LET f == s.failures[i] IN
    \/ \E k \in 1..Done(s) :
          f.stage = Stages[k] /\ f.retryable /\ f.attempt < s.stages[k].attempt
    \/ /\ f.stage = s.run.current
       /\ \/ f.retryable /\ f.attempt < s.run.attempts
          \/ f.attempt = s.run.attempts /\ Active(s) /\ i = Len(s.failures)

FailuresFit(s) ==
    /\ \A i \in 1..(Len(s.failures) - 1) :
          \/ Position(s.failures[i].stage) < Position(s.failures[i + 1].stage)
          \/ /\ s.failures[i].stage = s.failures[i + 1].stage
             /\ s.failures[i].attempt < s.failures[i + 1].attempt
    /\ \A i \in DOMAIN s.failures : FailureFits(s, i)
    /\ Active(s) =>
          /\ s.failures # << >>
          /\ s.failures[Len(s.failures)] =
                [stage |-> s.run.current, attempt |-> s.run.attempts,
                 code |-> s.run.failure.code, retryable |-> s.run.failure.retryable]
    /\ \A k \in 1..8 : FailureSequence(s, Stages[k], Count(s, k))

\* The identity of the package; 0 before the pack stage completed.
PackId(s) == IF Done(s) >= 6 THEN s.stages[6].id ELSE 0

QualityRejected(s) ==
    HasRejected(s) /\ s.run.current = "validate" /\ s.run.failure.code = "quality"

EvidenceFits(s) ==
    /\ s.physical = PackId(s)
    /\ s.quality.package = (IF Done(s) >= 7 \/ QualityRejected(s) THEN PackId(s) ELSE 0)
    /\ s.quality.passed <=> Done(s) >= 7
    /\ s.published = (IF Done(s) = 8 THEN PackId(s) ELSE 0)
    /\ s.run.status = "succeeded" <=> Done(s) = 8

Legal(s) == ValidRun(s.run) /\ Records(s) /\ FailuresFit(s) /\ EvidenceFits(s)

----------------------------------------------------------------------------
(***************************************************************************)
(* The stages.                                                             *)
(***************************************************************************)

\* The eight stages are distinct, and none of them is NoStage.
LEMMA StageList ==
    /\ Len(Stages) = 8
    /\ Stages[1] = "ingest" /\ Stages[2] = "calibrate" /\ Stages[3] = "profile"
    /\ Stages[4] = "search" /\ Stages[5] = "refine" /\ Stages[6] = "pack"
    /\ Stages[7] = "validate" /\ Stages[8] = "publish"
BY DEF Stages

LEMMA StageFacts ==
    /\ \A i \in 1..8 : Stages[i] \in StageNames /\ Stages[i] # NoStage
    /\ \A i, j \in 1..8 : Stages[i] = Stages[j] => i = j
    /\ \A x \in StageNames : x # NoStage /\ \E i \in 1..8 : x = Stages[i]
<1>1. ASSUME NEW i \in 1..8
      PROVE  \/ i = 1 \/ i = 2 \/ i = 3 \/ i = 4 \/ i = 5 \/ i = 6 \/ i = 7 \/ i = 8
  OBVIOUS
<1>2. \A i \in 1..8 : Stages[i] # NoStage
  BY <1>1, StageList DEF NoStage
<1>3. \A i, j \in 1..8 : Stages[i] = Stages[j] => i = j
  BY <1>1, StageList
<1> QED
  BY <1>2, <1>3 DEF StageNames

\* Which stage runs after n completed ones.
LEMMA StageIndex ==
    ASSUME NEW n \in 0..7
    PROVE  /\ Stages[n + 1] = "pack" <=> n = 5
           /\ Stages[n + 1] = "validate" <=> n = 6
           /\ Stages[n + 1] = "publish" <=> n = 7
<1>1. n + 1 \in 1..8 /\ 6 \in 1..8 /\ 7 \in 1..8 /\ 8 \in 1..8
  OBVIOUS
<1>2. Stages[6] = "pack" /\ Stages[7] = "validate" /\ Stages[8] = "publish"
  BY StageList
<1>3. /\ Stages[n + 1] = Stages[6] <=> n + 1 = 6
      /\ Stages[n + 1] = Stages[7] <=> n + 1 = 7
      /\ Stages[n + 1] = Stages[8] <=> n + 1 = 8
  BY <1>1, StageFacts
<1> QED
  BY <1>2, <1>3

\* The position of a stage is its index.
LEMMA Positions ==
    /\ \A i \in 1..8 : Position(Stages[i]) = i
    /\ \A x \in StageNames : Position(x) \in 1..8 /\ Stages[Position(x)] = x
<1>1. ASSUME NEW x \in StageNames
      PROVE  Position(x) \in 1..8 /\ Stages[Position(x)] = x
  <2>1. \E i \in 1..Len(Stages) : Stages[i] = x
    BY StageFacts, StageList
  <2>2. Position(x) \in 1..Len(Stages) /\ Stages[Position(x)] = x
    BY <2>1 DEF Position
  <2> QED
    BY <2>2, StageList
<1> QED
  BY <1>1, StageFacts

\* A run that ConversionRun::validate accepts is at its first uncompleted stage.
LEMMA RunPlace ==
    ASSUME NEW s \in State, ValidRun(s.run)
    PROVE  /\ Done(s) \in 0..8
           /\ \A i \in 1..Done(s) :
                 s.run.receipts[i].stage = Stages[i] /\ s.run.receipts[i].attempts > 0
           /\ s.run.status # "succeeded" => Done(s) < 8 /\ s.run.current = Stages[Done(s) + 1]
           /\ s.run.status = "succeeded" => Done(s) = 8 /\ s.run.current = NoStage
<1>1. Done(s) \in Nat
  BY DEF Done, State, Run
<1>2. /\ Done(s) <= 8
      /\ \A i \in 1..Done(s) :
            s.run.receipts[i].stage = Stages[i] /\ s.run.receipts[i].attempts > 0
      /\ s.run.status # "succeeded" => Done(s) < 8 /\ s.run.current = Stages[Done(s) + 1]
      /\ s.run.status = "succeeded" => Done(s) = 8 /\ s.run.current = NoStage
  BY StageList, Zenon DEF ValidRun, Done
<1> QED
  BY <1>1, <1>2

\* The accepted record of stage k is record k.
LEMMA AcceptedAt ==
    ASSUME NEW s \in State, ValidRun(s.run), Records(s), NEW k \in 1..8
    PROVE  /\ k <= Done(s) => Accepted(s, Stages[k]) = {s.stages[k]}
           /\ k > Done(s) => Accepted(s, Stages[k]) = {}
<1>1. Done(s) \in 0..8 /\ \A i \in 1..Done(s) : s.run.receipts[i].stage = Stages[i]
  BY RunPlace
<1>2. s.stages \in Seq(Record)
  BY DEF State
<1>3. DOMAIN s.stages = 1..Len(s.stages) /\ Len(s.stages) \in {Done(s), Done(s) + 1}
  BY <1>2 DEF Records
<1>4. \A i \in 1..Done(s) : i \in DOMAIN s.stages /\ s.stages[i].accepted /\ s.stages[i].stage = Stages[i]
  BY <1>1, <1>3 DEF Records
<1>5. \A i \in DOMAIN s.stages : s.stages[i].accepted => i \in 1..Done(s)
  <2>1. CASE Len(s.stages) = Done(s) + 1
    <3>1. ~s.stages[Done(s) + 1].accepted
      BY <2>1 DEF Records, HasRejected, Done
    <3> QED
      BY <1>1, <1>3, <2>1, <3>1
  <2>2. CASE Len(s.stages) = Done(s)
    BY <1>1, <1>3, <2>2
  <2> QED
    BY <1>3, <2>1, <2>2
<1>6. \A r : r \in Accepted(s, Stages[k]) <=>
                \E i \in DOMAIN s.stages : r = s.stages[i] /\ r.accepted /\ r.stage = Stages[k]
  BY DEF Accepted
<1>7. \A r : r \in Accepted(s, Stages[k]) => k \in 1..Done(s) /\ r = s.stages[k]
  BY <1>1, <1>4, <1>5, <1>6, StageFacts
<1>8. k \in 1..Done(s) => s.stages[k] \in Accepted(s, Stages[k])
  BY <1>4, <1>6
<1> QED
  BY <1>1, <1>7, <1>8

\* Packed is the identity that the pack stage produced.
LEMMA PackedAt ==
    ASSUME NEW s \in State, ValidRun(s.run), Records(s)
    PROVE  Packed(s) = PackId(s)
<1>1. Done(s) \in 0..8
  BY RunPlace
<1>2. /\ 6 <= Done(s) => Accepted(s, "pack") = {s.stages[6]}
      /\ 6 > Done(s) => Accepted(s, "pack") = {}
  BY AcceptedAt, StageList
<1>3. CASE Done(s) >= 6
  <2>1. Accepted(s, "pack") = {s.stages[6]}
    BY <1>1, <1>2, <1>3
  <2>2. (CHOOSE r \in Accepted(s, "pack") : TRUE) = s.stages[6]
    BY <2>1
  <2> QED
    BY <1>3, <2>1, <2>2 DEF Packed, PackId
<1>4. CASE Done(s) < 6
  BY <1>1, <1>2, <1>4 DEF Packed, PackId
<1> QED
  BY <1>1, <1>3, <1>4

\* What load_locked demands of the failure receipts.
LEMMA FailuresFitLoad ==
    ASSUME NEW s \in State, ValidRun(s.run), Records(s), FailuresFit(s)
    PROVE  FailuresLoad(s)
<1> DEFINE f(i) == s.failures[i]
           isActive(i) == Active(s) /\ f(i).stage = s.run.current /\ f(i).attempt = s.run.attempts
<1>1. /\ Done(s) \in 0..8
      /\ \A i \in 1..Done(s) : s.run.receipts[i].stage = Stages[i]
      /\ s.run.status # "succeeded" => Done(s) < 8 /\ s.run.current = Stages[Done(s) + 1]
      /\ s.run.status = "succeeded" => s.run.current = NoStage
  BY RunPlace
<1>2. /\ s.stages \in Seq(Record) /\ s.failures \in Seq(Failure) /\ s.run.attempts \in Nat
      /\ s.run.current \in StageNames \cup {NoStage}
  BY DEF State, Run
<1>3. /\ \A k \in 1..8 : k <= Done(s) => Accepted(s, Stages[k]) = {s.stages[k]}
      /\ \A k \in 1..8 : k > Done(s) => Accepted(s, Stages[k]) = {}
  BY AcceptedAt, Zenon
<1>4. ASSUME NEW i \in DOMAIN s.failures
      PROVE  /\ IF Accepted(s, f(i).stage) # {}
                  THEN f(i).retryable /\ \A r \in Accepted(s, f(i).stage) : f(i).attempt < r.attempt
                  ELSE /\ f(i).stage = s.run.current
                       /\ f(i).attempt <= s.run.attempts
                       /\ f(i).attempt = s.run.attempts => isActive(i)
                       /\ ~isActive(i) => f(i).retryable
             /\ isActive(i) => i = Len(s.failures)
  <2>1. /\ f(i) \in Failure /\ f(i).stage \in StageNames /\ f(i).attempt \in Nat
        /\ f(i).stage # NoStage
    <3>1. s.failures[i] \in Failure
      BY <1>2
    <3> QED
      BY <3>1, StageFacts DEF Failure
  <2>2. CASE \E k \in 1..Done(s) :
                f(i).stage = Stages[k] /\ f(i).retryable /\ f(i).attempt < s.stages[k].attempt
    <3>1. PICK k \in 1..Done(s) :
                f(i).stage = Stages[k] /\ f(i).retryable /\ f(i).attempt < s.stages[k].attempt
      BY <2>2
    <3>2. Accepted(s, f(i).stage) = {s.stages[k]}
      BY <1>1, <1>3, <3>1
    <3>3. f(i).stage # s.run.current
      BY <1>1, <2>1, <3>1, StageFacts
    <3> QED
      BY <3>1, <3>2, <3>3
  <2>3. CASE /\ f(i).stage = s.run.current
             /\ \/ f(i).retryable /\ f(i).attempt < s.run.attempts
                \/ f(i).attempt = s.run.attempts /\ Active(s) /\ i = Len(s.failures)
    <3>1. Done(s) + 1 \in 1..8 /\ f(i).stage = Stages[Done(s) + 1]
      BY <1>1, <2>1, <2>3
    <3>2. Accepted(s, f(i).stage) = {}
      BY <1>1, <1>3, <3>1
    <3> QED
      BY <1>2, <2>1, <2>3, <3>2
  <2> QED
    BY <2>2, <2>3, Zenon DEF FailuresFit, FailureFits
<1>5. ASSUME NEW i \in DOMAIN s.stages, s.stages[i].accepted
      PROVE  FailureSequence(s, s.stages[i].stage, s.stages[i].attempt - 1)
  <2>1. i \in 1..Done(s)
    <3>1. i \in 1..(Done(s) + 1)
      BY <1>1, <1>2, <1>5 DEF Records
    <3>2. i # Done(s) + 1
      BY <1>1, <1>2, <1>5 DEF Records, HasRejected, Done
    <3> QED
      BY <1>1, <3>1, <3>2
  <2>2. s.stages[i].stage = Stages[i] /\ i \in 1..8 /\ Count(s, i) = s.stages[i].attempt - 1
    BY <1>1, <2>1 DEF Records, Count
  <2> QED
    BY <2>2 DEF FailuresFit
<1>6. ASSUME s.run.current # NoStage
      PROVE  FailureSequence(s, s.run.current,
                IF Active(s) \/ s.run.attempts = 0 THEN s.run.attempts ELSE s.run.attempts - 1)
  <2>1. Done(s) + 1 \in 1..8 /\ s.run.current = Stages[Done(s) + 1]
    BY <1>1, <1>6
  <2>2. Count(s, Done(s) + 1) =
           IF Active(s) \/ s.run.attempts = 0 THEN s.run.attempts ELSE s.run.attempts - 1
    BY <1>1, <1>2 DEF Count
  <2> QED
    BY <2>1, <2>2 DEF FailuresFit
<1> QED
  BY <1>4, <1>5, <1>6, Zenon DEF FailuresLoad, FailuresFit, Active

\* Every Legal state passes validate_loaded_state but for the identity of a
\* rejected output.
LEMMA LegalLoads ==
    ASSUME NEW s \in State, Legal(s)
    PROVE  validate_loaded_state(s) \/ \E i \in DOMAIN s.stages : s.stages[i].id = 0
<1>1. ValidRun(s.run) /\ Records(s) /\ Done(s) \in 0..8
  BY RunPlace DEF Legal
<1>2. FailuresLoad(s)
  BY FailuresFitLoad DEF Legal
<1>3. EvidenceLoads(s)
  <2>1. Packed(s) = PackId(s)
    BY <1>1, PackedAt
  <2>2. /\ (Accepted(s, "validate") # {}) <=> Done(s) >= 7
        /\ (Accepted(s, "publish") # {}) <=> Done(s) = 8
    <3>1. /\ 7 <= Done(s) => Accepted(s, "validate") = {s.stages[7]}
          /\ 7 > Done(s) => Accepted(s, "validate") = {}
      BY <1>1, AcceptedAt, StageList
    <3>2. /\ 8 <= Done(s) => Accepted(s, "publish") = {s.stages[8]}
          /\ 8 > Done(s) => Accepted(s, "publish") = {}
      BY <1>1, AcceptedAt, StageList
    <3> QED
      BY <1>1, <3>1, <3>2
  <2>3. Done(s) >= 6 => PackId(s) # 0
    BY <1>1 DEF Records, PackId
  <2>4. EvidenceFits(s)
    BY DEF Legal
  <2> QED
    <3>1. s.physical = Packed(s)
      BY <2>1, <2>4 DEF EvidenceFits
    <3>2. s.quality.package =
             IF Accepted(s, "validate") # {} \/ QualityRejected(s) THEN Packed(s) ELSE 0
      BY <2>1, <2>2, <2>4 DEF EvidenceFits
    <3>3. s.quality.passed = (Accepted(s, "validate") # {})
      <4>1. s.quality.passed \in BOOLEAN
        BY DEF State
      <4>2. s.quality.passed <=> Accepted(s, "validate") # {}
        BY <2>2, <2>4 DEF EvidenceFits
      <4> QED
        BY <4>1, <4>2
    <3>4. s.published # 0 <=> Done(s) = 8
      BY <1>1, <2>3, <2>4 DEF EvidenceFits
    <3>5. s.published # 0 =>
             s.published = Packed(s) /\ s.quality.passed /\ s.run.status = "succeeded"
      <4> SUFFICES ASSUME s.published # 0
                   PROVE  s.published = Packed(s) /\ s.quality.passed /\ s.run.status = "succeeded"
        OBVIOUS
      <4>1. Done(s) = 8 /\ Done(s) >= 7
        BY <3>4
      <4>2. s.published = Packed(s) /\ s.run.status = "succeeded"
        BY <2>1, <2>4, <4>1 DEF EvidenceFits
      <4>3. s.quality.passed
        BY <2>4, <4>1 DEF EvidenceFits
      <4> QED
        BY <4>2, <4>3
    <3>6. s.run.status = "succeeded" => s.published # 0
      BY <2>4, <3>4 DEF EvidenceFits
    <3> QED
      BY <2>2, <3>1, <3>2, <3>3, <3>4, <3>5, <3>6, Zenon DEF EvidenceLoads, QualityRejected
<1>4. (\A i \in DOMAIN s.stages : s.stages[i].id # 0) => StageRecordsLoad(s)
  BY <1>1 DEF Records, StageRecordsLoad, Done
<1> QED
  BY <1>1, <1>2, <1>3, <1>4 DEF validate_loaded_state

----------------------------------------------------------------------------
(***************************************************************************)
(* The failures of a stage.                                                *)
(***************************************************************************)

\* What FailureSequence says of the failures q.
SequenceIn(q, stage, count) ==
    LET of == {i \in DOMAIN q : q[i].stage = stage} IN
    /\ of = {} <=> count = 0
    /\ \A i \in of :
          /\ (\A j \in of : i <= j) => q[i].attempt = 1
          /\ (\A j \in of : j <= i) => q[i].attempt = count
          /\ \A j \in of : i < j /\ (\A k \in of : k <= i \/ j <= k) =>
                q[j].attempt = q[i].attempt + 1

LEMMA SequenceSame ==
    ASSUME NEW s, NEW t, t.failures = s.failures,
           NEW x, NEW c, FailureSequence(s, x, c)
    PROVE  FailureSequence(t, x, c)
<1>1. PICK q : q = s.failures
  OBVIOUS
<1>2. \A u : FailureSequence(u, x, c) = SequenceIn(u.failures, x, c)
  BY DEF FailureSequence, SequenceIn
<1>3. SequenceIn(q, x, c)
  BY <1>1, <1>2, Zenon
<1> QED
  BY <1>1, <1>2, <1>3, Zenon

\* A failure of another stage does not change the sequence of a stage.
LEMMA SequenceOther ==
    ASSUME NEW s \in State, NEW t \in State, NEW f \in Failure,
           t.failures = Append(s.failures, f),
           NEW x, f.stage # x, NEW c, FailureSequence(s, x, c)
    PROVE  FailureSequence(t, x, c)
<1> DEFINE old == {i \in DOMAIN s.failures : s.failures[i].stage = x}
           new == {i \in DOMAIN t.failures : t.failures[i].stage = x}
<1>1. s.failures \in Seq(Failure)
  BY DEF State
<1>2. /\ DOMAIN t.failures = DOMAIN s.failures \cup {Len(s.failures) + 1}
      /\ \A i \in DOMAIN s.failures : t.failures[i] = s.failures[i]
      /\ t.failures[Len(s.failures) + 1] = f
  BY <1>1
<1>3. new = old
  BY <1>2
<1>4. \A i \in old : t.failures[i] = s.failures[i]
  BY <1>2
<1> HIDE DEF old, new
<1>5. /\ old = {} <=> c = 0
      /\ \A i \in old :
            /\ (\A j \in old : i <= j) => t.failures[i].attempt = 1
            /\ (\A j \in old : j <= i) => t.failures[i].attempt = c
            /\ \A j \in old : i < j /\ (\A k \in old : k <= i \/ j <= k) =>
                  t.failures[j].attempt = t.failures[i].attempt + 1
  <2>1. /\ old = {} <=> c = 0
        /\ \A i \in old :
              /\ (\A j \in old : i <= j) => s.failures[i].attempt = 1
              /\ (\A j \in old : j <= i) => s.failures[i].attempt = c
              /\ \A j \in old : i < j /\ (\A k \in old : k <= i \/ j <= k) =>
                    s.failures[j].attempt = s.failures[i].attempt + 1
    BY Zenon DEF FailureSequence, old
  <2> QED
    BY <1>4, <2>1, Zenon
<1> QED
  BY <1>3, <1>5, Zenon DEF FailureSequence, new

\* The failure of the attempt after the last failed one continues the sequence.
LEMMA SequenceNext ==
    ASSUME NEW s \in State, NEW t \in State, NEW f \in Failure,
           t.failures = Append(s.failures, f),
           NEW c \in Nat, f.attempt = c + 1, FailureSequence(s, f.stage, c)
    PROVE  FailureSequence(t, f.stage, c + 1)
<1> DEFINE last == Len(s.failures) + 1
           old == {i \in DOMAIN s.failures : s.failures[i].stage = f.stage}
           new == {i \in DOMAIN t.failures : t.failures[i].stage = f.stage}
<1>1. s.failures \in Seq(Failure) /\ Len(s.failures) \in Nat
  BY DEF State
<1>2. /\ DOMAIN t.failures = DOMAIN s.failures \cup {last}
      /\ \A i \in DOMAIN s.failures : t.failures[i] = s.failures[i]
      /\ t.failures[last] = f
      /\ DOMAIN s.failures = 1..Len(s.failures)
  BY <1>1
<1>3. new = old \cup {last} /\ last \notin old /\ \A i \in old : i \in Nat /\ i < last
  BY <1>1, <1>2
<1>4. t.failures[last].attempt = c + 1 /\ last \in Nat
  BY <1>1, <1>2
<1>5. \A i \in old : t.failures[i] = s.failures[i]
  BY <1>2
<1> HIDE DEF old, new, last
<1>6. /\ old = {} <=> c = 0
      /\ \A i \in old :
            /\ (\A j \in old : i <= j) => s.failures[i].attempt = 1
            /\ (\A j \in old : j <= i) => s.failures[i].attempt = c
            /\ \A j \in old : i < j /\ (\A k \in old : k <= i \/ j <= k) =>
                  s.failures[j].attempt = s.failures[i].attempt + 1
  BY Zenon DEF FailureSequence, old
<1>7. new # {} /\ c + 1 # 0
  BY <1>3
<1>8. ASSUME NEW i \in new
      PROVE  /\ (\A j \in new : i <= j) => t.failures[i].attempt = 1
             /\ (\A j \in new : j <= i) => t.failures[i].attempt = c + 1
             /\ \A j \in new : i < j /\ (\A k \in new : k <= i \/ j <= k) =>
                   t.failures[j].attempt = t.failures[i].attempt + 1
  <2>1. CASE i = last
    <3>1. (\A j \in new : i <= j) => old = {}
      BY <1>3, <1>4, <2>1
    <3>2. \A j \in new : ~(i < j)
      BY <1>3, <1>4, <2>1
    <3>3. old = {} => c = 0
      BY <1>6, Zenon
    <3>4. t.failures[i].attempt = c + 1
      BY <1>4, <2>1, Zenon
    <3>5. old = {} => t.failures[i].attempt = 1
      BY <3>3, <3>4
    <3> QED
      BY <3>1, <3>2, <3>4, <3>5, Zenon
  <2>2. CASE i \in old
    <3>1. (\A j \in new : i <= j) => t.failures[i].attempt = 1
      BY <1>3, <1>5, <1>6, <2>2, Zenon
    <3>2. ~(\A j \in new : j <= i)
      BY <1>3, <1>4, <2>2
    <3>3. ASSUME NEW j \in new, i < j, \A k \in new : k <= i \/ j <= k
          PROVE  t.failures[j].attempt = t.failures[i].attempt + 1
      <4>1. CASE j = last
        <5>1. \A k \in old : k <= i
          BY <1>3, <1>4, <3>3, <4>1
        <5> QED
          BY <1>4, <1>5, <1>6, <2>2, <4>1, <5>1, Zenon
      <4>2. CASE j \in old
        BY <1>3, <1>5, <1>6, <2>2, <3>3, <4>2, Zenon
      <4> QED
        BY <1>3, <4>1, <4>2, Zenon
    <3> QED
      BY <3>1, <3>2, <3>3, Zenon
  <2> QED
    BY <1>3, <2>1, <2>2, Zenon
<1> QED
  BY <1>7, <1>8, Zenon DEF FailureSequence, new

\* Without failures of a stage its sequence is empty.
LEMMA SequenceEmpty ==
    ASSUME NEW s, NEW x, \A i \in DOMAIN s.failures : s.failures[i].stage # x
    PROVE  FailureSequence(s, x, 0)
<1>1. {i \in DOMAIN s.failures : s.failures[i].stage = x} = {}
  OBVIOUS
<1> QED
  BY <1>1 DEF FailureSequence

----------------------------------------------------------------------------
(***************************************************************************)
(* Each change of a state keeps it Legal.                                  *)
(***************************************************************************)
LEMMA Appended ==
    ASSUME NEW T, NEW q \in Seq(T), NEW e \in T
    PROVE  /\ Append(q, e) \in Seq(T)
           /\ Len(q) \in Nat /\ Len(Append(q, e)) = Len(q) + 1
           /\ \A i \in 1..Len(q) : Append(q, e)[i] = q[i]
           /\ Append(q, e)[Len(q) + 1] = e
OBVIOUS

LEMMA Extended ==
    ASSUME NEW T, NEW q \in Seq(T), NEW e \in T, NEW r, r = Append(q, e)
    PROVE  /\ r \in Seq(T)
           /\ Len(q) \in Nat /\ Len(r) = Len(q) + 1
           /\ \A i \in 1..Len(q) : r[i] = q[i]
           /\ r[Len(q) + 1] = e
OBVIOUS

LEMMA WithRun ==
    ASSUME NEW s \in State, NEW r \in Run, NEW t, t = [s EXCEPT !.run = r]
    PROVE  /\ t \in State
           /\ t.run = r /\ t.stages = s.stages /\ t.failures = s.failures
           /\ t.physical = s.physical /\ t.quality = s.quality /\ t.published = s.published
BY Zenon DEF State

\* t is s with one more failure.
Adds(s, t, f) ==
    /\ t \in State
    /\ t.run = s.run /\ t.stages = s.stages /\ t.failures = Append(s.failures, f)
    /\ t.physical = s.physical /\ t.quality = s.quality /\ t.published = s.published

LEMMA WithFailure ==
    ASSUME NEW s \in State, NEW f \in Failure, NEW t, t = [s EXCEPT !.failures = Append(s.failures, f)]
    PROVE  Adds(s, t, f)
<1>1. s.failures \in Seq(Failure)
  BY DEF State
<1>2. PICK g \in Seq(Failure) : g = Append(s.failures, f)
  BY <1>1, Appended, Zenon
<1>3. t = [s EXCEPT !.failures = g]
  BY <1>2 DEF State
<1>4. t \in State
  BY <1>2, <1>3, Zenon DEF State
<1>5. /\ t.run = s.run /\ t.stages = s.stages /\ t.failures = g
      /\ t.physical = s.physical /\ t.quality = s.quality /\ t.published = s.published
  BY <1>3 DEF State
<1> QED
  BY <1>2, <1>4, <1>5, Zenon DEF Adds

\* What ConversionRun::validate says of the attempts and the failure of a run.
LEMMA RunFacts ==
    ASSUME NEW s \in State, ValidRun(s.run)
    PROVE  /\ s.run.attempts \in Nat
           /\ s.run.status = "ready" => s.run.attempts = 0
           /\ s.run.status = "succeeded" => s.run.attempts = 0
           /\ s.run.status \in {"running", "retryable", "terminal"} => s.run.attempts > 0
           /\ s.run.status \in {"retryable", "terminal"} =>
                 (s.run.failure.retryable <=> s.run.status = "retryable")
<1>1. s.run.attempts \in Nat /\ s.run.failure.retryable \in BOOLEAN
  BY DEF State, Run, RunFailure
<1> QED
  BY <1>1 DEF ValidRun

\* What ValidRun says of the status.
StatusFits(run) ==
    /\ run.status \in {"ready", "running", "retryable", "terminal"}
    /\ run.status = "ready" => run.attempts = 0 /\ run.failure = NoFailure
    /\ run.status = "running" => run.attempts > 0 /\ run.failure = NoFailure
    /\ run.status \in {"retryable", "terminal"} =>
          /\ run.attempts > 0 /\ run.failure.stage = run.current
          /\ run.failure.retryable <=> run.status = "retryable"

\* A run at the same stage, with another status.
LEMMA RunIntro ==
    ASSUME NEW s \in State, ValidRun(s.run), s.run.status # "succeeded", NEW t \in State,
           t.run.receipts = s.run.receipts, t.run.current = s.run.current, StatusFits(t.run)
    PROVE  ValidRun(t.run)
<1>1. t.run.failure.retryable \in BOOLEAN
  BY DEF State, Run, RunFailure
<1>2. /\ t.run.status # "succeeded"
      /\ t.run.status \in {"retryable", "terminal"} =>
            /\ t.run.attempts > 0 /\ t.run.failure.stage = t.run.current
            /\ t.run.failure.retryable = (t.run.status = "retryable")
  BY <1>1 DEF StatusFits
<1>3. /\ t.run.status = "ready" => t.run.attempts = 0 /\ t.run.failure = NoFailure
      /\ t.run.status = "running" => t.run.attempts > 0 /\ t.run.failure = NoFailure
  BY Zenon DEF StatusFits
<1>4. PICK q, x : q = s.run.receipts /\ x = s.run.current
  OBVIOUS
<1>5. /\ Len(q) <= Len(Stages) /\ Len(q) < Len(Stages) /\ x = Stages[Len(q) + 1]
      /\ \A i \in 1..Len(q) : q[i].stage = Stages[i] /\ q[i].attempts > 0
  BY <1>4 DEF ValidRun
<1>6. q = t.run.receipts /\ x = t.run.current
  BY <1>4
<1> QED
  BY <1>2, <1>3, <1>5, <1>6, Zenon DEF ValidRun

\* A state before any stage was claimed.
LEMMA NewLegal ==
    ASSUME NEW s \in {NoState, NewState}
    PROVE  /\ s \in State /\ Legal(s)
           /\ s.run.receipts = << >> /\ s.run.attempts = 0 /\ s.run.status = "ready"
<1>1. /\ s.run = NewRun /\ s.stages = << >> /\ s.failures = << >>
      /\ s.physical = 0 /\ s.published = 0 /\ s.quality = [package |-> 0, passed |-> FALSE]
      /\ s = [run |-> s.run, stages |-> s.stages, failures |-> s.failures,
              physical |-> s.physical, quality |-> s.quality, published |-> s.published,
              exists |-> s.exists]
      /\ s.exists \in BOOLEAN
  <2>1. CASE s = NoState
    BY <2>1 DEF NoState
  <2>2. CASE s = NewState
    BY <2>2, Zenon DEF NoState, NewState
  <2> QED
    BY <2>1, <2>2
<1>2. /\ s.run.status = "ready" /\ s.run.current = Stages[1] /\ s.run.attempts = 0
      /\ s.run.receipts = << >> /\ s.run.failure = NoFailure
  BY <1>1 DEF NewRun
<1>3. s.run \in Run
  BY <1>1, StageFacts DEF NewRun, Run, RunFailure, NoFailure, Status, Codes, NoStage
<1>4. s \in State
  <2>1. /\ s.stages \in Seq(Record) /\ s.failures \in Seq(Failure)
        /\ s.physical \in Nat /\ s.published \in Nat
        /\ s.quality \in [package : Nat, passed : BOOLEAN]
    BY <1>1
  <2> QED
    BY <1>1, <1>3, <2>1, Zenon DEF State
<1>5. Done(s) = 0
  BY <1>2 DEF Done
<1>6. ValidRun(s.run)
  BY <1>2, StageList DEF ValidRun
<1>7. Records(s) /\ ~HasRejected(s) /\ ~Active(s)
  BY <1>1, <1>2, <1>5 DEF Records, HasRejected, Active, Done
<1>8. FailuresFit(s)
  <2>1. \A k \in 1..8 : Count(s, k) = 0
    BY <1>2, <1>5 DEF Count
  <2>2. \A k \in 1..8 : FailureSequence(s, Stages[k], 0)
    BY <1>1, SequenceEmpty
  <2> QED
    BY <1>1, <1>7, <2>1, <2>2 DEF FailuresFit
<1>9. EvidenceFits(s)
  BY <1>1, <1>2, <1>5, <1>7 DEF EvidenceFits, PackId, QualityRejected
<1> QED
  BY <1>2, <1>4, <1>6, <1>7, <1>8, <1>9 DEF Legal

\* The records fit every state with the same completed stages.
LEMMA RecordsSame ==
    ASSUME NEW s, NEW t, t.stages = s.stages, t.run.receipts = s.run.receipts,
           Done(t) = Done(s), Records(s), ~HasRejected(t)
    PROVE  Records(t)
<1>1. PICK stages, receipts : stages = s.stages /\ receipts = s.run.receipts
  OBVIOUS
<1>2. /\ Len(stages) \in {Done(s), Done(s) + 1}
      /\ \A i \in DOMAIN stages : stages[i].attempt > 0
      /\ \A i \in 1..Done(s) :
            /\ stages[i].accepted
            /\ stages[i].id # 0
            /\ stages[i].stage = receipts[i].stage
            /\ stages[i].attempt = receipts[i].attempts
            /\ stages[i].id = receipts[i].output
  BY <1>1, Zenon DEF Records
<1>3. stages = t.stages /\ receipts = t.run.receipts
  BY <1>1
<1> QED
  BY <1>2, <1>3, Zenon DEF Records

\* Claiming an attempt: begin_stage.
LEMMA BeginLegal ==
    ASSUME NEW s \in State, Legal(s), MayBegin(s.run),
           NEW t, t = [s EXCEPT !.run = begin_stage(s.run)]
    PROVE  /\ t \in State /\ Legal(t)
           /\ t.run.status = "running" /\ t.run.receipts = s.run.receipts
           /\ t.run.attempts = s.run.attempts + 1
<1>1. /\ begin_stage(s.run) \in Run
      /\ begin_stage(s.run).status = "running"
      /\ begin_stage(s.run).attempts = s.run.attempts + 1
      /\ begin_stage(s.run).failure = NoFailure
      /\ begin_stage(s.run).receipts = s.run.receipts
      /\ begin_stage(s.run).current = s.run.current
  <2>1. s.run \in Run /\ s.run.attempts + 1 \in Nat
    BY DEF State, Run
  <2>2. NoFailure \in RunFailure /\ "running" \in Status
    BY DEF NoFailure, RunFailure, Codes, Status
  <2> QED
    BY <2>1, <2>2, Zenon DEF begin_stage, Run
<1>2. /\ t \in State
      /\ t.run = begin_stage(s.run) /\ t.stages = s.stages /\ t.failures = s.failures
      /\ t.physical = s.physical /\ t.quality = s.quality /\ t.published = s.published
  BY <1>1, WithRun
<1>3. /\ ValidRun(s.run) /\ Records(s) /\ FailuresFit(s) /\ EvidenceFits(s)
      /\ s.run.status \in {"ready", "retryable"}
  BY DEF Legal, MayBegin
<1>4. /\ Done(s) \in 0..7 /\ s.run.current = Stages[Done(s) + 1] /\ Done(t) = Done(s)
      /\ s.run.attempts \in Nat /\ (s.run.attempts = 0 <=> s.run.status = "ready")
      /\ s.failures \in Seq(Failure)
  <2>1. Done(s) \in 0..7 /\ s.run.current = Stages[Done(s) + 1]
    BY <1>3, RunPlace
  <2>2. s.run.attempts \in Nat /\ (s.run.attempts = 0 <=> s.run.status = "ready")
    BY <1>3, RunFacts
  <2> QED
    BY <1>1, <1>2, <2>1, <2>2 DEF Done, State
<1>5. ValidRun(t.run)
  <2>1. StatusFits(t.run)
    BY <1>1, <1>2, <1>4 DEF StatusFits
  <2> QED
    BY <1>1, <1>2, <1>3, <2>1, RunIntro, Zenon
<1>6. ~HasRejected(s) /\ ~HasRejected(t) /\ ~Active(t) /\ (Active(s) <=> s.run.status = "retryable")
  BY <1>1, <1>2, <1>3 DEF Records, HasRejected, Active
<1>7. Records(t)
  <2>1. /\ t.stages = s.stages /\ t.run.receipts = s.run.receipts /\ Done(t) = Done(s)
        /\ Records(s) /\ ~HasRejected(t)
    BY <1>1, <1>2, <1>3, <1>4, <1>6
  <2> QED
    BY <2>1, RecordsSame, Zenon
<1>8. FailuresFit(t)
  <2>1. ASSUME NEW i \in DOMAIN s.failures
        PROVE  FailureFits(t, i)
    <3>1. FailureFits(s, i) /\ s.failures[i].attempt \in Nat
      <4>1. FailureFits(s, i)
        BY <1>3, Zenon DEF FailuresFit
      <4>2. s.failures[i] \in Failure
        BY <1>4
      <4> QED
        BY <4>1, <4>2 DEF Failure
    <3>2. (Active(s) /\ i = Len(s.failures)) => s.failures[i].retryable
      <4>1. Active(s) => s.run.failure.retryable
        BY <1>3, <1>6, RunFacts
      <4>2. Active(s) => s.failures[Len(s.failures)].retryable = s.run.failure.retryable
        BY <1>3 DEF FailuresFit
      <4> QED
        BY <4>1, <4>2
    <3> QED
      BY <1>1, <1>2, <1>4, <3>1, <3>2 DEF FailureFits
  <2>2. \A k \in 1..8 : Count(t, k) = Count(s, k)
    <3> SUFFICES ASSUME NEW k \in 1..8 PROVE Count(t, k) = Count(s, k)
      OBVIOUS
    <3>1. t.run.attempts = s.run.attempts + 1 /\ t.run.attempts # 0
      BY <1>1, <1>2, <1>4
    <3>2. CASE k = Done(s) + 1
      <4>1. Count(t, k) = s.run.attempts
        BY <1>4, <1>6, <3>1, <3>2 DEF Count
      <4>2. CASE s.run.status = "ready"
        BY <1>4, <3>2, <4>1, <4>2 DEF Count
      <4>3. CASE s.run.status = "retryable"
        BY <1>4, <1>6, <3>2, <4>1, <4>3 DEF Count
      <4> QED
        BY <1>3, <4>2, <4>3
    <3>3. CASE k # Done(s) + 1
      BY <1>2, <1>4, <3>3 DEF Count
    <3> QED
      BY <3>2, <3>3
  <2>3. \A k \in 1..8 : FailureSequence(t, Stages[k], Count(t, k))
    <3>1. ASSUME NEW k \in 1..8  PROVE FailureSequence(t, Stages[k], Count(t, k))
      <4>1. FailureSequence(s, Stages[k], Count(s, k))
        BY <1>3, Zenon DEF FailuresFit
      <4>2. FailureSequence(s, Stages[k], Count(t, k)) /\ t.failures = s.failures
        BY <1>2, <2>2, <4>1, Zenon
      <4> QED
        BY <4>2, SequenceSame, Zenon
    <3> QED
      BY <3>1, Zenon
  <2> QED
    BY <1>2, <1>3, <1>6, <2>1, <2>3 DEF FailuresFit
<1>9. EvidenceFits(t)
  BY <1>1, <1>2, <1>3, <1>4, <1>6 DEF EvidenceFits, PackId, QualityRejected
<1> QED
  BY <1>1, <1>2, <1>5, <1>7, <1>8, <1>9 DEF Legal

\* A running attempt: what it has and has not recorded yet.
LEMMA RunningState ==
    ASSUME NEW s \in State, Legal(s), s.run.status = "running"
    PROVE  /\ Done(s) \in 0..7 /\ Done(s) + 1 \in 1..8
           /\ s.run.current = Stages[Done(s) + 1] /\ s.run.current \in StageNames
           /\ s.run.attempts \in Nat /\ s.run.attempts > 0
           /\ ~HasRejected(s) /\ ~Active(s) /\ Len(s.stages) = Done(s)
           /\ \A i \in DOMAIN s.failures :
                 \/ \E k \in 1..Done(s) : /\ s.failures[i].stage = Stages[k]
                                          /\ s.failures[i].retryable
                                          /\ s.failures[i].attempt < s.stages[k].attempt
                 \/ /\ s.failures[i].stage = s.run.current
                    /\ s.failures[i].retryable /\ s.failures[i].attempt < s.run.attempts
           /\ FailureSequence(s, s.run.current, s.run.attempts - 1)
<1>1. ValidRun(s.run) /\ Records(s) /\ FailuresFit(s)
  BY DEF Legal
<1>2. /\ Done(s) \in 0..7 /\ Done(s) + 1 \in 1..8
      /\ s.run.current = Stages[Done(s) + 1] /\ s.run.current \in StageNames
  BY <1>1, RunPlace, StageFacts
<1>3. s.run.attempts \in Nat /\ s.run.attempts > 0
  BY <1>1, RunFacts
<1>4. ~HasRejected(s) /\ ~Active(s) /\ Len(s.stages) = Done(s)
  BY <1>1 DEF Records, HasRejected, Active, Done
<1>5. \A i \in DOMAIN s.failures : FailureFits(s, i)
  BY <1>1, Zenon DEF FailuresFit
<1>6. Count(s, Done(s) + 1) = s.run.attempts - 1
  BY <1>2, <1>3, <1>4 DEF Count
<1>7. FailureSequence(s, s.run.current, s.run.attempts - 1)
  BY <1>1, <1>2, <1>6 DEF FailuresFit
<1> QED
  BY <1>2, <1>3, <1>4, <1>5, <1>7, Zenon DEF FailureFits

\* fail_stage ends the attempt and leaves the rest of the run alone.
\* r is the run of s, failed.
FailedRun(s, r, code, retryable) ==
    /\ r \in Run
    /\ r.status \in {"retryable", "terminal"} /\ (r.status = "retryable" <=> retryable)
    /\ r.attempts = s.run.attempts /\ r.receipts = s.run.receipts
    /\ r.current = s.run.current
    /\ r.failure = [stage |-> s.run.current, code |-> code, retryable |-> retryable]

LEMMA FailRun ==
    ASSUME NEW s \in State, s.run.current \in StageNames,
           NEW code \in Codes, NEW retryable \in BOOLEAN,
           NEW r, r = fail_stage(s.run, code, retryable)
    PROVE  FailedRun(s, r, code, retryable)
<1>1. s.run \in Run
  BY DEF State
<1>2. [stage |-> s.run.current, code |-> code, retryable |-> retryable] \in RunFailure
  BY DEF RunFailure
<1>3. (IF retryable THEN "retryable" ELSE "terminal") \in Status
  BY DEF Status
<1>4. PICK status \in Status, failure \in RunFailure :
         /\ r = [s.run EXCEPT !.status = status, !.failure = failure]
         /\ status \in {"retryable", "terminal"} /\ (status = "retryable" <=> retryable)
         /\ failure = [stage |-> s.run.current, code |-> code, retryable |-> retryable]
  BY <1>2, <1>3 DEF fail_stage
<1>5. /\ r \in Run /\ r.status = status /\ r.attempts = s.run.attempts
      /\ r.receipts = s.run.receipts /\ r.current = s.run.current /\ r.failure = failure
  BY <1>1, <1>4, Zenon DEF Run
<1> QED
  BY <1>4, <1>5 DEF FailedRun

\* t is s with the failure f of the claimed attempt.
FailsAs(s, t, f) ==
    /\ f.stage = s.run.current /\ f.attempt = s.run.attempts
    /\ f = [stage |-> f.stage, attempt |-> f.attempt, code |-> f.code,
            retryable |-> f.retryable]
    /\ t.run.status \in {"retryable", "terminal"}
    /\ t.run.attempts = s.run.attempts /\ t.run.receipts = s.run.receipts
    /\ t.run.current = s.run.current
    /\ t.run.failure.stage = s.run.current /\ t.run.failure.code = f.code
    /\ t.run.failure.retryable = f.retryable
    /\ f.retryable <=> t.run.status = "retryable"
    /\ t.stages = s.stages /\ t.failures = Append(s.failures, f)
    /\ t.physical = s.physical /\ t.quality = s.quality /\ t.published = s.published

\* A failed attempt with its failure receipt, field by field.
LEMMA FailFits ==
    ASSUME NEW s \in State, Legal(s), s.run.status = "running", NEW t \in State,
           NEW f \in Failure, FailsAs(s, t, f)
    PROVE  Legal(t)
<1>1. /\ Done(s) \in 0..7 /\ Done(s) + 1 \in 1..8
      /\ s.run.current = Stages[Done(s) + 1] /\ s.run.current \in StageNames
      /\ s.run.attempts \in Nat /\ s.run.attempts > 0
      /\ ~HasRejected(s) /\ ~Active(s) /\ Len(s.stages) = Done(s)
      /\ FailureSequence(s, s.run.current, s.run.attempts - 1)
  BY RunningState
<1>2. /\ ValidRun(s.run) /\ Records(s) /\ FailuresFit(s) /\ EvidenceFits(s)
  BY DEF Legal
<1>3. Done(t) = Done(s) /\ t.stages = s.stages /\ t.run.receipts = s.run.receipts
  BY Zenon DEF Done, FailsAs
<1>4. ~HasRejected(t) /\ Active(t)
  <2>1. ~HasRejected(t)
    BY <1>1, <1>3, Zenon DEF HasRejected
  <2> QED
    BY <2>1 DEF Active, FailsAs
<1>5. ValidRun(t.run)
  <2>1. StatusFits(t.run)
    BY <1>1 DEF StatusFits, FailsAs
  <2>2. t.run.receipts = s.run.receipts /\ t.run.current = s.run.current
    BY Zenon DEF FailsAs
  <2> QED
    BY <1>2, <2>1, <2>2, RunIntro
<1>6. Records(t)
  BY <1>2, <1>3, <1>4, RecordsSame, Zenon
<1>7. EvidenceFits(t)
  <2>1. ~QualityRejected(s) /\ ~QualityRejected(t) /\ PackId(t) = PackId(s)
    BY <1>1, <1>3, <1>4, Zenon DEF QualityRejected, PackId
  <2>2. t.physical = s.physical /\ t.quality = s.quality /\ t.published = s.published
        /\ t.run.status # "succeeded"
    BY DEF FailsAs
  <2>3. Done(s) # 8 /\ s.run.status # "succeeded"
    BY <1>1
  <2> QED
    BY <1>2, <1>3, <2>1, <2>2, <2>3 DEF EvidenceFits
<1>8. /\ s.failures \in Seq(Failure) /\ Len(s.failures) \in Nat
      /\ Len(t.failures) = Len(s.failures) + 1
      /\ DOMAIN t.failures = 1..(Len(s.failures) + 1) /\ DOMAIN s.failures = 1..Len(s.failures)
      /\ \A i \in 1..Len(s.failures) : t.failures[i] = s.failures[i]
      /\ t.failures[Len(s.failures) + 1] = f
  <2>1. s.failures \in Seq(Failure) /\ t.failures = Append(s.failures, f)
    BY DEF State, FailsAs
  <2> QED
    BY <2>1, Extended
<1>9. ASSUME NEW i \in 1..Len(s.failures)
      PROVE  /\ s.failures[i].stage \in StageNames
             /\ \/ \E k \in 1..Done(s) : /\ s.failures[i].stage = Stages[k]
                                         /\ s.failures[i].retryable
                                         /\ s.failures[i].attempt < s.stages[k].attempt
                \/ /\ s.failures[i].stage = s.run.current
                   /\ s.failures[i].retryable /\ s.failures[i].attempt < s.run.attempts
  <2>1. s.failures[i] \in Failure /\ i \in DOMAIN s.failures
    BY <1>8
  <2>2. s.failures[i].stage \in StageNames
    BY <2>1 DEF Failure
  <2> QED
    BY <2>1, <2>2, RunningState, Zenon
<1>10. ASSUME NEW i \in 1..Len(s.failures)
       PROVE  \/ Position(t.failures[i].stage) < Position(t.failures[i + 1].stage)
              \/ /\ t.failures[i].stage = t.failures[i + 1].stage
                 /\ t.failures[i].attempt < t.failures[i + 1].attempt
  <2>1. CASE i < Len(s.failures)
    <3>1. i \in 1..(Len(s.failures) - 1) /\ i + 1 \in 1..Len(s.failures)
      BY <1>8, <2>1
    <3>2. t.failures[i] = s.failures[i] /\ t.failures[i + 1] = s.failures[i + 1]
      BY <1>8, <3>1
    <3> QED
      BY <1>2, <3>1, <3>2, Zenon DEF FailuresFit
  <2>2. CASE i = Len(s.failures)
    <3>1. t.failures[i] = s.failures[i] /\ t.failures[i + 1] = f
      BY <1>8, <2>2, Zenon
    <3>2. /\ Position(f.stage) = Done(s) + 1
          /\ f.stage = s.run.current /\ f.attempt = s.run.attempts
      <4>1. f.stage = s.run.current /\ f.attempt = s.run.attempts
        BY Zenon DEF FailsAs
      <4> QED
        BY <1>1, <4>1, Positions, Zenon
    <3>3. ASSUME NEW k \in 1..Done(s), s.failures[i].stage = Stages[k]
          PROVE  Position(s.failures[i].stage) < Position(f.stage)
      <4>1. k \in 1..8 /\ k < Done(s) + 1
        BY <1>1
      <4>2. Position(Stages[k]) = k
        BY <4>1, Positions
      <4> QED
        BY <3>2, <3>3, <4>1, <4>2
    <3> QED
      BY <1>9, <3>1, <3>2, <3>3
  <2> QED
    BY <1>8, <2>1, <2>2
<1>11. ASSUME NEW i \in DOMAIN t.failures
       PROVE  FailureFits(t, i)
  <2>1. /\ t.run.current = s.run.current /\ t.run.attempts = s.run.attempts
        /\ f.stage = s.run.current /\ f.attempt = s.run.attempts
    BY DEF FailsAs
  <2>2. CASE i = Len(s.failures) + 1
    BY <1>4, <1>8, <2>1, <2>2 DEF FailureFits
  <2>3. CASE i \in 1..Len(s.failures)
    BY <1>3, <1>8, <1>9, <2>1, <2>3, Zenon DEF FailureFits
  <2> QED
    BY <1>8, <2>2, <2>3
<1>12. /\ t.failures # << >>
       /\ t.failures[Len(t.failures)] =
             [stage |-> t.run.current, attempt |-> t.run.attempts,
              code |-> t.run.failure.code, retryable |-> t.run.failure.retryable]
  BY <1>8 DEF FailsAs
<1>13. ASSUME NEW k \in 1..8
       PROVE  FailureSequence(t, Stages[k], Count(t, k))
  <2>1. /\ f.stage = s.run.current /\ f.attempt = s.run.attempts
        /\ t.run.attempts = s.run.attempts /\ t.failures = Append(s.failures, f)
    BY DEF FailsAs
  <2>2. CASE k = Done(s) + 1
    <3>1. PICK c \in Nat : c = s.run.attempts - 1
      BY <1>1
    <3>2. Count(t, k) = c + 1 /\ f.attempt = c + 1
      BY <1>1, <1>3, <1>4, <2>1, <2>2, <3>1 DEF Count
    <3>3. FailureSequence(t, f.stage, c + 1)
      BY <1>1, <2>1, <3>1, <3>2, SequenceNext
    <3> QED
      BY <1>1, <2>1, <2>2, <3>2, <3>3
  <2>3. CASE k # Done(s) + 1
    <3>1. Count(t, k) = Count(s, k)
      BY <1>1, <1>3, <2>3 DEF Count
    <3>2. f.stage # Stages[k]
      BY <1>1, <2>1, <2>3, StageFacts
    <3>3. FailureSequence(s, Stages[k], Count(s, k))
      BY <1>2, Zenon DEF FailuresFit
    <3> QED
      BY <2>1, <3>1, <3>2, <3>3, SequenceOther
  <2> QED
    BY <2>2, <2>3
<1>14. FailuresFit(t)
  <2>1. Len(t.failures) - 1 = Len(s.failures)
    BY <1>8
  <2> QED
    BY <1>10, <1>11, <1>12, <1>13, <2>1, Zenon DEF FailuresFit
<1> QED
  BY <1>5, <1>6, <1>7, <1>14 DEF Legal

\* t is legal, at the same stage and attempt as s.
SameStage(s, t) ==
    /\ t \in State /\ Legal(t) /\ t.exists = s.exists
    /\ t.run.receipts = s.run.receipts /\ t.run.attempts = s.run.attempts

\* t is legal, one accepted stage ahead of s.
NextStage(s, t) ==
    /\ t \in State /\ Legal(t) /\ t.exists = s.exists
    /\ \E done \in Receipt : t.run.receipts = Append(s.run.receipts, done)

\* A failed attempt with its failure receipt: record_failure and fail_stage.
FailedAt(s, code, retryable) ==
    [FailureRecorded(s, code, retryable) EXCEPT !.run = fail_stage(s.run, code, retryable)]

LEMMA FailLegal ==
    ASSUME NEW s \in State, Legal(s), s.run.status = "running",
           NEW code \in Codes, NEW retryable \in BOOLEAN,
           NEW t, t = FailedAt(s, code, retryable)
    PROVE  SameStage(s, t)
<1>1. /\ s.run.current \in StageNames /\ s.run.attempts \in Nat
  BY RunningState
<1>2. PICK f \in Failure : f = [stage |-> s.run.current, attempt |-> s.run.attempts,
                                code |-> code, retryable |-> retryable]
  BY <1>1, Zenon DEF Failure
<1>3. PICK r \in Run :
      /\ r = fail_stage(s.run, code, retryable)
      /\ r.status \in {"retryable", "terminal"} /\ (r.status = "retryable" <=> retryable)
      /\ r.attempts = s.run.attempts /\ r.receipts = s.run.receipts
      /\ r.current = s.run.current
      /\ r.failure = [stage |-> s.run.current, code |-> code, retryable |-> retryable]
  <2>1. PICK r : r = fail_stage(s.run, code, retryable)
    OBVIOUS
  <2>2. FailedRun(s, r, code, retryable)
    BY <1>1, <2>1, FailRun
  <2> QED
    BY <2>1, <2>2, Zenon DEF FailedRun
<1>4. PICK u : u = [s EXCEPT !.failures = Append(s.failures, f)]
  BY Zenon
<1>5. /\ u \in State /\ u.run = s.run /\ u.stages = s.stages
      /\ u.failures = Append(s.failures, f)
      /\ u.physical = s.physical /\ u.quality = s.quality /\ u.published = s.published
  <2>1. Adds(s, u, f)
    BY <1>4, WithFailure
  <2> QED
    BY <2>1, Zenon DEF Adds
<1>6. t = [u EXCEPT !.run = r]
  BY <1>2, <1>3, <1>4 DEF FailedAt, FailureRecorded
<1>7. /\ t \in State /\ t.run = r /\ t.stages = u.stages /\ t.failures = u.failures
      /\ t.physical = u.physical /\ t.quality = u.quality /\ t.published = u.published
  <2>1. u \in State
    BY <1>5
  <2> QED
    BY <1>6, <2>1, Zenon DEF State
<1>8. Legal(t)
  <2>1. /\ f.stage = s.run.current /\ f.attempt = s.run.attempts /\ f.code = code
        /\ f.retryable = retryable
        /\ f = [stage |-> f.stage, attempt |-> f.attempt, code |-> f.code,
                retryable |-> f.retryable]
    BY <1>2
  <2>2. /\ t.stages = s.stages /\ t.failures = Append(s.failures, f)
        /\ t.physical = s.physical /\ t.quality = s.quality /\ t.published = s.published
    BY <1>5, <1>7
  <2>3. /\ t.run.status \in {"retryable", "terminal"}
        /\ t.run.attempts = s.run.attempts /\ t.run.receipts = s.run.receipts
        /\ t.run.current = s.run.current
        /\ t.run.failure.stage = s.run.current /\ t.run.failure.code = f.code
        /\ t.run.failure.retryable = f.retryable
        /\ f.retryable <=> t.run.status = "retryable"
    BY <1>3, <1>7, <2>1
  <2>4. FailsAs(s, t, f)
    BY <2>1, <2>2, <2>3, Zenon DEF FailsAs
  <2> QED
    BY <1>7, <2>4, FailFits
<1>9. t.exists = s.exists
  BY DEF FailedAt, FailureRecorded, State
<1>10. t.run.receipts = s.run.receipts /\ t.run.attempts = s.run.attempts
  BY <1>3, <1>7
<1> QED
  BY <1>7, <1>8, <1>9, <1>10, Zenon DEF SameStage

\* t is s with the record of the rejected output.
RejectsAs(s, t, rec) ==
    /\ rec.stage = s.run.current /\ rec.attempt = s.run.attempts /\ ~rec.accepted
    /\ t.run.status = "terminal" /\ t.run.attempts = s.run.attempts
    /\ t.run.receipts = s.run.receipts /\ t.run.current = s.run.current
    /\ t.run.failure.stage = s.run.current /\ ~t.run.failure.retryable
    /\ t.stages = Append(s.stages, rec) /\ t.failures = s.failures
    /\ t.physical = s.physical /\ t.published = s.published
    /\ \/ t.run.failure.code = "contract" /\ t.quality = s.quality
       \/ /\ t.run.failure.code = "quality" /\ s.run.current = "validate"
          /\ t.quality.package = PackId(s) /\ ~t.quality.passed

\* A rejected output, field by field.
LEMMA RejectFits ==
    ASSUME NEW s \in State, Legal(s), s.run.status = "running", NEW t \in State,
           NEW rec \in Record, RejectsAs(s, t, rec)
    PROVE  Legal(t)
<1>1. /\ Done(s) \in 0..7 /\ Done(s) + 1 \in 1..8
      /\ s.run.current = Stages[Done(s) + 1] /\ s.run.current \in StageNames
      /\ s.run.attempts \in Nat /\ s.run.attempts > 0
      /\ ~HasRejected(s) /\ ~Active(s) /\ Len(s.stages) = Done(s)
  BY RunningState
<1>2. /\ ValidRun(s.run) /\ Records(s) /\ FailuresFit(s) /\ EvidenceFits(s)
  BY DEF Legal
<1>3. /\ Done(t) = Done(s) /\ t.run.receipts = s.run.receipts /\ t.failures = s.failures
      /\ t.run.attempts = s.run.attempts /\ t.run.current = s.run.current
      /\ t.run.status = "terminal"
  BY Zenon DEF Done, RejectsAs
<1>4. /\ Len(t.stages) = Done(s) + 1 /\ DOMAIN t.stages = 1..(Done(s) + 1)
      /\ \A i \in 1..Done(s) : t.stages[i] = s.stages[i] /\ i \in DOMAIN s.stages
      /\ t.stages[Done(s) + 1] = rec
  <2>1. s.stages \in Seq(Record) /\ t.stages = Append(s.stages, rec)
    BY DEF State, RejectsAs
  <2> QED
    BY <1>1, <2>1, Extended
<1>5. HasRejected(t) /\ ~Active(t)
  BY <1>3, <1>4 DEF Done, HasRejected, Active
<1>6. ValidRun(t.run)
  <2>1. StatusFits(t.run)
    BY <1>1 DEF StatusFits, RejectsAs
  <2> QED
    BY <1>2, <1>3, <2>1, RunIntro
<1>7. Records(t)
  <2>1. \A i \in DOMAIN t.stages : t.stages[i].attempt > 0
    <3>1. rec.attempt = s.run.attempts /\ DOMAIN s.stages = 1..Done(s)
      BY <1>1 DEF RejectsAs, State
    <3>2. \A i \in DOMAIN s.stages : s.stages[i].attempt > 0
      BY <1>2, Zenon DEF Records
    <3> QED
      BY <1>1, <1>4, <3>1, <3>2
  <2>2. \A i \in 1..Done(t) :
           /\ t.stages[i].accepted
           /\ t.stages[i].id # 0
           /\ t.stages[i].stage = t.run.receipts[i].stage
           /\ t.stages[i].attempt = t.run.receipts[i].attempts
           /\ t.stages[i].id = t.run.receipts[i].output
    BY <1>2, <1>3, <1>4 DEF Records
  <2>3. /\ ~t.stages[Done(t) + 1].accepted
        /\ t.stages[Done(t) + 1].stage = t.run.current
        /\ t.stages[Done(t) + 1].attempt = t.run.attempts
        /\ t.run.failure.code \in {"quality", "contract"}
    BY <1>3, <1>4 DEF RejectsAs
  <2> QED
    BY <1>3, <1>4, <2>1, <2>2, <2>3 DEF Records
<1>8. FailuresFit(t)
  <2>1. ASSUME NEW i \in DOMAIN t.failures
        PROVE  FailureFits(t, i)
    <3>1. \/ \E k \in 1..Done(s) : /\ s.failures[i].stage = Stages[k]
                                   /\ s.failures[i].retryable
                                   /\ s.failures[i].attempt < s.stages[k].attempt
          \/ /\ s.failures[i].stage = s.run.current
             /\ s.failures[i].retryable /\ s.failures[i].attempt < s.run.attempts
      BY <1>3, RunningState
    <3> QED
      BY <1>3, <1>4, <3>1 DEF FailureFits
  <2>2. ASSUME NEW k \in 1..8
        PROVE  FailureSequence(t, Stages[k], Count(t, k))
    <3>1. Count(t, k) = Count(s, k)
      BY <1>1, <1>3, <1>4, <1>5 DEF Count
    <3>2. FailureSequence(s, Stages[k], Count(s, k))
      BY <1>2, Zenon DEF FailuresFit
    <3> QED
      BY <1>3, <3>1, <3>2, SequenceSame
  <2> QED
    BY <1>2, <1>3, <1>5, <2>1, <2>2, Zenon DEF FailuresFit
<1>9. EvidenceFits(t)
  <2>1. PackId(t) = PackId(s)
    BY <1>1, <1>3, <1>4 DEF PackId
  <2>2. /\ ~QualityRejected(s) /\ t.physical = s.physical /\ t.published = s.published
        /\ Done(s) # 8 /\ s.run.status # "succeeded" /\ t.run.status # "succeeded"
    BY <1>1, <1>3 DEF QualityRejected, RejectsAs
  <2>3. CASE t.run.failure.code = "contract" /\ t.quality = s.quality
    <3>1. ~QualityRejected(t)
      BY <2>3 DEF QualityRejected
    <3> QED
      BY <1>2, <1>3, <2>1, <2>2, <2>3, <3>1 DEF EvidenceFits
  <2>4. CASE /\ t.run.failure.code = "quality" /\ s.run.current = "validate"
             /\ t.quality.package = PackId(s) /\ ~t.quality.passed
    <3>1. QualityRejected(t)
      BY <1>3, <1>5, <2>4 DEF QualityRejected
    <3>2. Done(s) = 6
      <4>1. Stages[Done(s) + 1] = "validate"
        BY <1>1, <2>4, Zenon
      <4> QED
        BY <1>1, <4>1, StageIndex, Zenon
    <3> QED
      BY <1>2, <1>3, <2>1, <2>2, <2>4, <3>1, <3>2 DEF EvidenceFits
  <2> QED
    BY <2>3, <2>4 DEF RejectsAs
<1> QED
  BY <1>6, <1>7, <1>8, <1>9 DEF Legal

\* t is s with the record of the accepted output and the receipt of its stage.
Completes(s, t, rec, done) ==
    /\ rec.stage = s.run.current /\ rec.attempt = s.run.attempts
    /\ rec.accepted /\ rec.id # 0
    /\ done.stage = s.run.current /\ done.attempts = s.run.attempts /\ done.output = rec.id
    /\ t.run.receipts = Append(s.run.receipts, done)
    /\ t.run.attempts = 0 /\ t.run.failure = NoFailure
    /\ Done(s) = 7 => t.run.status = "succeeded" /\ t.run.current = NoStage
    /\ Done(s) # 7 => t.run.status = "ready" /\ t.run.current = Stages[Done(s) + 2]
    /\ t.stages = Append(s.stages, rec) /\ t.failures = s.failures
    /\ Done(s) = 5 => t.physical = rec.id
    /\ Done(s) # 5 => t.physical = s.physical
    /\ Done(s) = 6 => t.quality.package = PackId(s) /\ t.quality.passed
    /\ Done(s) # 6 => t.quality = s.quality
    /\ Done(s) = 7 => t.published = PackId(s)
    /\ Done(s) # 7 => t.published = s.published

\* A run after the completion of a stage.
LEMMA RunBuilt ==
    ASSUME NEW s \in State, Done(s) \in 0..8,
           \A i \in 1..Done(s) :
              s.run.receipts[i].stage = Stages[i] /\ s.run.receipts[i].attempts > 0,
           s.run.status \in {"ready", "succeeded"},
           s.run.status # "succeeded" => Done(s) < 8 /\ s.run.current = Stages[Done(s) + 1],
           s.run.status = "succeeded" => Done(s) = 8 /\ s.run.current = NoStage,
           s.run.attempts = 0, s.run.failure = NoFailure
    PROVE  ValidRun(s.run)
<1>1. Done(s) <= 8 /\ s.run.status # "running" /\ s.run.status \notin {"retryable", "terminal"}
  OBVIOUS
<1> QED
  BY <1>1, StageList, Zenon DEF ValidRun, Done

\* An accepted output completes its stage.
LEMMA CompleteFits ==
    ASSUME NEW s \in State, Legal(s), s.run.status = "running", NEW t \in State,
           NEW rec \in Record, NEW done \in Receipt, Completes(s, t, rec, done)
    PROVE  Legal(t)
<1>1. /\ Done(s) \in 0..7 /\ Done(s) + 1 \in 1..8
      /\ s.run.current = Stages[Done(s) + 1] /\ s.run.current \in StageNames
      /\ s.run.attempts \in Nat /\ s.run.attempts > 0
      /\ ~HasRejected(s) /\ ~Active(s) /\ Len(s.stages) = Done(s)
  BY RunningState
<1>2. /\ ValidRun(s.run) /\ Records(s) /\ FailuresFit(s) /\ EvidenceFits(s)
  BY DEF Legal
<1>3. /\ Done(t) = Done(s) + 1
      /\ \A i \in 1..Done(s) : t.run.receipts[i] = s.run.receipts[i]
      /\ t.run.receipts[Done(s) + 1] = done
  <2>1. s.run.receipts \in Seq(Receipt)
    BY DEF State, Run
  <2> QED
    BY <2>1, Appended DEF Done, Completes
<1>4. /\ Len(t.stages) = Done(s) + 1 /\ DOMAIN t.stages = 1..(Done(s) + 1)
      /\ \A i \in 1..Done(s) : t.stages[i] = s.stages[i] /\ i \in DOMAIN s.stages
      /\ t.stages[Done(s) + 1] = rec
  <2>1. s.stages \in Seq(Record) /\ t.stages \in Seq(Record)
    BY DEF State
  <2> QED
    BY <1>1, <2>1, Appended DEF Completes
<1>5. Done(t) = Done(s) + 1
  BY <1>3
<1>6. /\ t.run.status \in {"ready", "succeeded"} /\ ~HasRejected(t) /\ ~Active(t)
      /\ t.run.status = "succeeded" <=> Done(s) = 7
  <2>1. Done(s) = 7 \/ Done(s) < 7
    BY <1>1
  <2>2. t.run.status \in {"ready", "succeeded"} /\ (t.run.status = "succeeded" <=> Done(s) = 7)
    BY <2>1, Zenon DEF Completes
  <2>3. ~HasRejected(t)
    BY <1>1, <1>4, <1>5 DEF HasRejected, Done
  <2> QED
    BY <2>2, <2>3 DEF Active
<1>7. ValidRun(t.run)
  <2>1. \A i \in 1..Done(s) :
           s.run.receipts[i].stage = Stages[i] /\ s.run.receipts[i].attempts > 0
    BY <1>2, RunPlace
  <2>2. \A i \in 1..Done(t) :
           t.run.receipts[i].stage = Stages[i] /\ t.run.receipts[i].attempts > 0
    <3> SUFFICES ASSUME NEW i \in 1..Done(t)
                 PROVE  t.run.receipts[i].stage = Stages[i] /\ t.run.receipts[i].attempts > 0
      OBVIOUS
    <3>1. CASE i = Done(s) + 1
      BY <1>1, <1>3, <3>1, Zenon DEF Completes
    <3>2. CASE i \in 1..Done(s)
      BY <1>3, <2>1, <3>2
    <3> QED
      BY <1>1, <1>5, <3>1, <3>2
  <2>3. /\ Done(t) \in 0..8
        /\ t.run.status # "succeeded" => Done(t) < 8 /\ t.run.current = Stages[Done(t) + 1]
        /\ t.run.status = "succeeded" => Done(t) = 8 /\ t.run.current = NoStage
    <3>1. CASE Done(s) = 7
      <4>1. t.run.status = "succeeded" /\ t.run.current = NoStage
        BY <3>1, Zenon DEF Completes
      <4> QED
        BY <1>5, <3>1, <4>1
    <3>2. CASE Done(s) # 7
      <4>1. t.run.status = "ready" /\ t.run.current = Stages[Done(s) + 2]
        BY <3>2, Zenon DEF Completes
      <4>2. Done(t) \in 0..8 /\ Done(t) < 8 /\ Done(t) + 1 = Done(s) + 2
        BY <1>1, <1>5, <3>2
      <4> QED
        BY <4>1, <4>2
    <3> QED
      BY <3>1, <3>2
  <2>4. t.run.attempts = 0 /\ t.run.failure = NoFailure
    BY DEF Completes
  <2> QED
    BY <1>6, <2>2, <2>3, <2>4, RunBuilt
<1>8. Records(t)
  <2>1. \A i \in DOMAIN t.stages : t.stages[i].attempt > 0
    <3>1. rec.attempt = s.run.attempts
      BY Zenon DEF Completes
    <3>2. \A i \in DOMAIN s.stages : s.stages[i].attempt > 0
      BY <1>2, Zenon DEF Records
    <3> QED
      BY <1>1, <1>4, <3>1, <3>2
  <2>2. ASSUME NEW i \in 1..Done(t)
        PROVE  /\ t.stages[i].accepted
               /\ t.stages[i].id # 0
               /\ t.stages[i].stage = t.run.receipts[i].stage
               /\ t.stages[i].attempt = t.run.receipts[i].attempts
               /\ t.stages[i].id = t.run.receipts[i].output
    <3>1. CASE i = Done(s) + 1
      <4>1. t.stages[i] = rec /\ t.run.receipts[i] = done
        BY <1>3, <1>4, <3>1, Zenon
      <4> QED
        BY <4>1, Zenon DEF Completes
    <3>2. CASE i \in 1..Done(s)
      <4>1. t.stages[i] = s.stages[i] /\ t.run.receipts[i] = s.run.receipts[i]
        BY <1>3, <1>4, <3>2
      <4> QED
        BY <1>2, <3>2, <4>1, Zenon DEF Records
    <3> QED
      BY <1>1, <1>5, <3>1, <3>2
  <2> QED
    BY <1>3, <1>4, <1>6, <2>1, <2>2 DEF Records
<1>9. FailuresFit(t)
  <2>1. t.failures = s.failures
    BY DEF Completes
  <2>2. ASSUME NEW i \in DOMAIN t.failures
        PROVE  \E k \in 1..Done(t) : /\ t.failures[i].stage = Stages[k]
                                     /\ t.failures[i].retryable
                                     /\ t.failures[i].attempt < t.stages[k].attempt
    <3>1. CASE \E k \in 1..Done(s) : /\ s.failures[i].stage = Stages[k]
                                     /\ s.failures[i].retryable
                                     /\ s.failures[i].attempt < s.stages[k].attempt
      <4>1. PICK k \in 1..Done(s) : /\ s.failures[i].stage = Stages[k]
                                    /\ s.failures[i].retryable
                                    /\ s.failures[i].attempt < s.stages[k].attempt
        BY <3>1
      <4>2. k \in 1..Done(t) /\ t.stages[k] = s.stages[k]
        BY <1>1, <1>4, <1>5
      <4> QED
        BY <2>1, <4>1, <4>2
    <3>2. CASE /\ s.failures[i].stage = s.run.current
               /\ s.failures[i].retryable /\ s.failures[i].attempt < s.run.attempts
      <4>1. Done(s) + 1 \in 1..Done(t) /\ t.stages[Done(s) + 1].attempt = s.run.attempts
        <5>1. rec.attempt = s.run.attempts
          BY Zenon DEF Completes
        <5> QED
          BY <1>1, <1>4, <1>5, <5>1
      <4> QED
        BY <1>1, <2>1, <3>2, <4>1
    <3> QED
      BY <2>1, <3>1, <3>2, RunningState, Zenon
  <2>3. \A i \in DOMAIN t.failures : FailureFits(t, i)
    BY <2>2, Zenon DEF FailureFits
  <2>4. ASSUME NEW k \in 1..8
        PROVE  FailureSequence(t, Stages[k], Count(t, k))
    <3>1. Count(t, k) = Count(s, k)
      <4>1. CASE k <= Done(s)
        BY <1>1, <1>4, <1>5, <4>1 DEF Count
      <4>2. CASE k = Done(s) + 1
        <5>1. t.stages[k].attempt = s.run.attempts
          BY <1>4, <4>2, Zenon DEF Completes
        <5> QED
          BY <1>1, <1>5, <4>2, <5>1 DEF Count
      <4>3. CASE k > Done(s) + 1
        <5>1. t.run.attempts = 0
          BY Zenon DEF Completes
        <5> QED
          BY <1>1, <1>5, <4>3, <5>1 DEF Count
      <4> QED
        BY <1>1, <4>1, <4>2, <4>3
    <3>2. FailureSequence(s, Stages[k], Count(s, k))
      BY <1>2, Zenon DEF FailuresFit
    <3> QED
      BY <2>1, <3>1, <3>2, SequenceSame
  <2>5. \A i \in 1..(Len(t.failures) - 1) :
           \/ Position(t.failures[i].stage) < Position(t.failures[i + 1].stage)
           \/ /\ t.failures[i].stage = t.failures[i + 1].stage
              /\ t.failures[i].attempt < t.failures[i + 1].attempt
    BY <1>2, <2>1, Zenon DEF FailuresFit
  <2> QED
    BY <1>6, <2>3, <2>4, <2>5, Zenon DEF FailuresFit
<1>10. EvidenceFits(t)
  <2>1. ~QualityRejected(s) /\ ~QualityRejected(t)
    BY <1>1, <1>6 DEF QualityRejected
  <2>2. /\ Done(s) >= 6 => PackId(t) = PackId(s)
        /\ Done(s) = 5 => PackId(t) = rec.id
        /\ Done(s) < 5 => PackId(t) = 0
        /\ Done(s) < 6 => PackId(s) = 0
    BY <1>1, <1>4, <1>5 DEF PackId
  <2>3. t.physical = PackId(t)
    <3>1. s.physical = PackId(s)
      BY <1>2, Zenon DEF EvidenceFits
    <3>2. /\ Done(s) = 5 => t.physical = rec.id
          /\ Done(s) # 5 => t.physical = s.physical
      BY Zenon DEF Completes
    <3> QED
      BY <1>1, <2>2, <3>1, <3>2
  <2>4. t.quality.package = (IF Done(t) >= 7 THEN PackId(t) ELSE 0)
    <3>1. CASE Done(s) = 6
      <4>1. t.quality.package = PackId(s)
        BY <3>1, Zenon DEF Completes
      <4> QED
        BY <1>5, <2>2, <3>1, <4>1
    <3>2. CASE Done(s) # 6
      <4>1. /\ t.quality = s.quality
            /\ s.quality.package = (IF Done(s) >= 7 THEN PackId(s) ELSE 0)
        BY <1>2, <2>1, <3>2, Zenon DEF Completes, EvidenceFits
      <4> QED
        BY <1>1, <1>5, <2>2, <3>2, <4>1
    <3> QED
      BY <3>1, <3>2
  <2>5. t.quality.passed <=> Done(t) >= 7
    <3>1. CASE Done(s) = 6
      <4>1. t.quality.passed
        BY <3>1, Zenon DEF Completes
      <4> QED
        BY <1>5, <3>1, <4>1
    <3>2. CASE Done(s) # 6
      <4>1. t.quality = s.quality /\ (s.quality.passed <=> Done(s) >= 7)
        BY <1>2, <3>2, Zenon DEF Completes, EvidenceFits
      <4> QED
        BY <1>1, <1>5, <3>2, <4>1
    <3> QED
      BY <3>1, <3>2
  <2>6. t.published = (IF Done(t) = 8 THEN PackId(t) ELSE 0)
    <3>1. s.published = (IF Done(s) = 8 THEN PackId(s) ELSE 0)
      BY <1>2, Zenon DEF EvidenceFits
    <3>2. /\ Done(s) = 7 => t.published = PackId(s)
          /\ Done(s) # 7 => t.published = s.published
      BY Zenon DEF Completes
    <3> QED
      BY <1>1, <1>5, <2>2, <3>1, <3>2
  <2> QED
    BY <1>1, <1>5, <1>6, <2>1, <2>3, <2>4, <2>5, <2>6 DEF EvidenceFits
<1> QED
  BY <1>7, <1>8, <1>9, <1>10 DEF Legal

LEMMA Verdict ==
    ASSUME NEW q, NEW x, NEW b, q = [package |-> x, passed |-> b]
    PROVE  q.package = x /\ q.passed = b
OBVIOUS

\* The record of the output o.
RecordOf(s, o, disposition, rec) ==
    /\ rec.stage = s.run.current /\ rec.attempt = s.run.attempts /\ rec.id = o.id
    /\ rec.accepted <=> disposition = "accepted"

\* The evidence t keeps of the output o.
KeptAs(s, t, o, disposition) ==
    /\ t.physical = IF disposition = "accepted" /\ s.run.current = "pack"
                      THEN o.package ELSE s.physical
    /\ IF disposition # "contract" /\ s.run.current = "validate"
         THEN t.quality.package = o.package /\ (t.quality.passed <=> o.passed)
         ELSE t.quality = s.quality
    /\ t.published = IF disposition = "accepted" /\ s.run.current = "publish"
                       THEN o.package ELSE s.published

\* t is s with the record rec of the output o, its evidence, and the run r.
RecordedAs(s, t, o, disposition, r, rec) ==
    /\ RecordOf(s, o, disposition, rec)
    /\ t \in State /\ t.run = r /\ t.failures = s.failures
    /\ t.stages = Append(s.stages, rec)
    /\ KeptAs(s, t, o, disposition)

\* record_output appends the record and keeps the evidence of the stage.
LEMMA Recording ==
    ASSUME NEW s \in State, s.run.current \in StageNames,
           NEW o, o.id \in Nat, o.package \in Nat, o.passed \in BOOLEAN,
           NEW disposition, NEW r \in Run,
           NEW t, t = [Recorded(s, o, disposition) EXCEPT !.run = r]
    PROVE  \E rec \in Record : RecordedAs(s, t, o, disposition, r, rec)
<1>1. PICK rec \in Record :
         rec = [stage |-> s.run.current, attempt |-> s.run.attempts, id |-> o.id,
                accepted |-> disposition = "accepted"]
  <2>1. s.run.attempts \in Nat
    BY DEF State, Run
  <2>2. PICK b \in BOOLEAN : b = (disposition = "accepted")
    BY Zenon
  <2>3. [stage |-> s.run.current, attempt |-> s.run.attempts, id |-> o.id, accepted |-> b]
           \in Record
    BY <2>1, Zenon DEF Record
  <2> QED
    BY <2>2, <2>3
<1>2. PICK stages \in Seq(Record) : stages = Append(s.stages, rec)
  <2>1. s.stages \in Seq(Record)
    BY DEF State
  <2> QED
    BY <2>1, Appended, Zenon
<1>3. PICK physical \in Nat :
         physical = IF disposition = "accepted" /\ s.run.current = "pack"
                      THEN o.package ELSE s.physical
  BY DEF State
<1>4. PICK quality \in [package : Nat, passed : BOOLEAN] :
         quality = IF disposition # "contract" /\ s.run.current = "validate"
                     THEN [package |-> o.package, passed |-> o.passed] ELSE s.quality
  BY Zenon DEF State
<1>5. PICK published \in Nat :
         published = IF disposition = "accepted" /\ s.run.current = "publish"
                       THEN o.package ELSE s.published
  BY DEF State
<1>6. t = [run |-> r, stages |-> stages, failures |-> s.failures, physical |-> physical,
           quality |-> quality, published |-> published, exists |-> s.exists]
  BY <1>1, <1>2, <1>3, <1>4, <1>5, Zenon DEF Recorded, State
<1>7. t \in State
  <2>1. s.failures \in Seq(Failure) /\ s.exists \in BOOLEAN
    BY DEF State
  <2>2. [run |-> r, stages |-> stages, failures |-> s.failures, physical |-> physical,
         quality |-> quality, published |-> published, exists |-> s.exists] \in State
    BY <2>1 DEF State
  <2> QED
    BY <1>6, <2>2, Zenon
<1>8. /\ t.run = r /\ t.failures = s.failures /\ t.stages = stages
      /\ t.physical = physical /\ t.quality = quality /\ t.published = published
  BY <1>6
<1>9. IF disposition # "contract" /\ s.run.current = "validate"
         THEN t.quality.package = o.package /\ (t.quality.passed <=> o.passed)
         ELSE t.quality = s.quality
  <2>1. CASE disposition # "contract" /\ s.run.current = "validate"
    <3>1. t.quality = [package |-> o.package, passed |-> o.passed]
      BY <1>4, <1>8, <2>1
    <3>2. t.quality.package = o.package /\ t.quality.passed = o.passed
      BY <3>1, Verdict
    <3> QED
      BY <2>1, <3>2
  <2>2. CASE ~(disposition # "contract" /\ s.run.current = "validate")
    BY <1>4, <1>8, <2>2
  <2> QED
    BY <2>1, <2>2
<1>10. RecordOf(s, o, disposition, rec)
  BY <1>1, Zenon DEF RecordOf
<1>11. /\ t.stages = Append(s.stages, rec)
       /\ t.physical = IF disposition = "accepted" /\ s.run.current = "pack"
                         THEN o.package ELSE s.physical
       /\ t.published = IF disposition = "accepted" /\ s.run.current = "publish"
                          THEN o.package ELSE s.published
  BY <1>2, <1>3, <1>5, <1>8
<1>12. KeptAs(s, t, o, disposition)
  BY <1>9, <1>11 DEF KeptAs
<1>13. t.stages = Append(s.stages, rec) /\ t.run = r /\ t.failures = s.failures
  BY <1>8, <1>11, Zenon
<1>14. RecordedAs(s, t, o, disposition, r, rec)
  BY <1>7, <1>10, <1>12, <1>13, Zenon DEF RecordedAs
<1> QED
  BY <1>14

\* What the driver may return.
LEMMA OutputFacts ==
    ASSUME NEW stage, NEW o \in Outputs(stage)
    PROVE  /\ o.id \in Nat /\ o.package \in Nat /\ o.passed \in BOOLEAN
           /\ o.sound => o.id # 0
           /\ o.sound /\ stage = "pack" => o.id = o.package
<1>1. Packages \subseteq Nat \ {0}
  BY SaltAssumption
<1>2. ASSUME NEW id \in {0, 1}, o = Output(id, FALSE, 1, FALSE)
      PROVE  o.id \in Nat /\ o.package \in Nat /\ o.passed \in BOOLEAN /\ ~o.sound
  BY <1>2 DEF Output
<1>3. ASSUME NEW k \in Claims(stage), NEW b \in Verdicts(stage),
             o = Output(IF stage = "pack" THEN k ELSE 1, TRUE, k, b)
      PROVE  /\ o.id \in Nat /\ o.package \in Nat /\ o.passed \in BOOLEAN
             /\ o.id # 0 /\ (stage = "pack" => o.id = o.package)
  <2>1. o.id = (IF stage = "pack" THEN k ELSE 1) /\ o.package = k /\ o.passed = b
    BY <1>3 DEF Output
  <2>2. k \in Nat \ {0}
    <3>1. CASE stage \in {"pack", "validate", "publish"}
      BY <1>1, <3>1 DEF Claims
    <3>2. CASE stage \notin {"pack", "validate", "publish"}
      BY <3>2 DEF Claims
    <3> QED
      BY <3>1, <3>2
  <2>3. b \in BOOLEAN
    BY Zenon DEF Verdicts
  <2> QED
    BY <2>1, <2>2, <2>3
<1>4. \/ \E id \in {0, 1} : o = Output(id, FALSE, 1, FALSE)
      \/ \E k \in Claims(stage), b \in Verdicts(stage) :
            o = Output(IF stage = "pack" THEN k ELSE 1, TRUE, k, b)
  BY DEF Outputs, Output
<1> QED
  BY <1>2, <1>3, <1>4, Zenon

\* An output that breaks its contract or fails the quality gate.
RejectedAt(s, o, disposition) == Failed(Recorded(s, o, disposition), disposition, FALSE)

LEMMA RejectLegal ==
    ASSUME NEW s \in State, Legal(s), s.run.status = "running",
           NEW o \in Outputs(s.run.current), NEW disposition \in {"contract", "quality"},
           disposition = "quality" =>
              validate_output(s, s.run.current, o) /\ s.run.current = "validate" /\ ~o.passed,
           NEW t, t = RejectedAt(s, o, disposition)
    PROVE  SameStage(s, t)
<1>1. s.run.current \in StageNames
  BY RunningState
<1>2. PICK r \in Run :
         /\ r = fail_stage(s.run, disposition, FALSE)
         /\ r.status = "terminal"
         /\ r.attempts = s.run.attempts /\ r.receipts = s.run.receipts
         /\ r.current = s.run.current
         /\ r.failure.stage = s.run.current /\ r.failure.code = disposition
         /\ ~r.failure.retryable
  <2>1. disposition \in Codes
    BY DEF Codes
  <2>2. PICK b \in BOOLEAN : b = FALSE
    BY Zenon
  <2>3. PICK r : r = fail_stage(s.run, disposition, b)
    OBVIOUS
  <2>4. /\ r \in Run
        /\ r.status \in {"retryable", "terminal"} /\ (r.status = "retryable" <=> b)
        /\ r.attempts = s.run.attempts /\ r.receipts = s.run.receipts
        /\ r.current = s.run.current
        /\ r.failure = [stage |-> s.run.current, code |-> disposition, retryable |-> b]
    <3>1. FailedRun(s, r, disposition, b)
      BY <1>1, <2>1, <2>3, FailRun
    <3> QED
      BY <3>1, Zenon DEF FailedRun
  <2>5. /\ r.failure.stage = s.run.current /\ r.failure.code = disposition
        /\ r.failure.retryable = b
    BY <2>4
  <2> QED
    BY <2>2, <2>3, <2>4, <2>5, Zenon
<1>3. t = [Recorded(s, o, disposition) EXCEPT !.run = r]
  <2>1. Recorded(s, o, disposition).run = s.run
    BY DEF Recorded, State
  <2> QED
    BY <1>2, <2>1 DEF RejectedAt, Failed
<1>4. o.id \in Nat /\ o.package \in Nat /\ o.passed \in BOOLEAN
  BY OutputFacts
<1>5. PICK rec \in Record : RecordedAs(s, t, o, disposition, r, rec)
  BY <1>1, <1>3, <1>4, Recording, Zenon
<1>6. /\ rec.stage = s.run.current /\ rec.attempt = s.run.attempts /\ ~rec.accepted
      /\ t.physical = s.physical /\ t.published = s.published
  BY <1>5 DEF RecordedAs, RecordOf, KeptAs
<1>7. /\ t.run.status = "terminal" /\ t.run.attempts = s.run.attempts
      /\ t.run.receipts = s.run.receipts /\ t.run.current = s.run.current
      /\ t.run.failure.stage = s.run.current /\ ~t.run.failure.retryable
      /\ t.run.failure.code = disposition
  BY <1>2, <1>5, Zenon DEF RecordedAs, RecordOf, KeptAs
<1>8. \/ t.run.failure.code = "contract" /\ t.quality = s.quality
      \/ /\ t.run.failure.code = "quality" /\ s.run.current = "validate"
         /\ t.quality.package = PackId(s) /\ ~t.quality.passed
  <2>1. CASE disposition = "contract"
    BY <1>5, <1>7, <2>1 DEF RecordedAs, RecordOf, KeptAs
  <2>2. CASE disposition = "quality"
    <3>1. s.run.current = "validate" /\ ~o.passed /\ o.package = Packed(s)
      BY <2>2 DEF validate_output
    <3>2. Packed(s) = PackId(s)
      BY PackedAt DEF Legal
    <3>3. t.quality.package = o.package /\ ~t.quality.passed
      <4>1. disposition # "contract" /\ s.run.current = "validate"
        BY <2>2, <3>1
      <4> QED
        BY <1>5, <3>1, <4>1, Zenon DEF RecordedAs, RecordOf, KeptAs
    <3> QED
      BY <1>7, <2>2, <3>1, <3>2, <3>3, Zenon
  <2> QED
    BY <2>1, <2>2
<1>9. t \in State /\ t.failures = s.failures /\ t.stages = Append(s.stages, rec)
  BY <1>5 DEF RecordedAs, RecordOf, KeptAs
<1>10. Legal(t)
  <2>1. RejectsAs(s, t, rec)
    BY <1>6, <1>7, <1>8, <1>9, Zenon DEF RejectsAs
  <2> QED
    BY <1>9, <2>1, RejectFits
<1>11. t.exists = s.exists
  BY DEF RejectedAt, Failed, Recorded, State
<1> QED
  BY <1>7, <1>9, <1>10, <1>11, Zenon DEF SameStage

\* r is the run of s with the receipt done, at the next stage.
NextRun(s, r, id, done) ==
    /\ done.stage = s.run.current /\ done.attempts = s.run.attempts
    /\ done.output = id
    /\ r \in Run /\ r.receipts = Append(s.run.receipts, done)
    /\ r.attempts = 0 /\ r.failure = NoFailure
    /\ Done(s) = 7 => r.status = "succeeded" /\ r.current = NoStage
    /\ Done(s) # 7 => r.status = "ready" /\ r.current = Stages[Done(s) + 2]

\* complete_stage moves the run to the next stage.
LEMMA CompleteRun ==
    ASSUME NEW s \in State, Legal(s), s.run.status = "running", NEW id \in Nat,
           NEW r, r = complete_stage(s.run, id)
    PROVE  \E done \in Receipt : NextRun(s, r, id, done)
<1>1. /\ Done(s) \in 0..7 /\ s.run.current \in StageNames /\ s.run.attempts \in Nat
  BY RunningState
<1>2. PICK done \in Receipt : done = [stage |-> s.run.current, attempts |-> s.run.attempts,
                                      output |-> id]
  BY <1>1, Zenon DEF Receipt
<1>3. PICK receipts \in Seq(Receipt) : receipts = Append(s.run.receipts, done)
  <2>1. s.run.receipts \in Seq(Receipt)
    BY DEF State, Run
  <2> QED
    BY <2>1, Appended, Zenon
<1>4. PICK next : next = StageAfter(Done(s) + 1)
  OBVIOUS
<1>5. /\ Done(s) = 7 => next = NoStage
      /\ Done(s) # 7 => next = Stages[Done(s) + 2] /\ next \in StageNames /\ next # NoStage
  BY <1>1, <1>4, StageList, StageFacts DEF StageAfter
<1>6. PICK status \in Status :
         /\ status = IF next = NoStage THEN "succeeded" ELSE "ready"
         /\ r = [status |-> status, current |-> next, attempts |-> 0, receipts |-> receipts,
                 failure |-> NoFailure]
  BY <1>2, <1>3, <1>4 DEF complete_stage, Done, Status
<1>7. r \in Run
  <2>1. next \in StageNames \cup {NoStage}
    BY <1>5
  <2>2. NoFailure \in RunFailure
    BY DEF NoFailure, RunFailure, Codes
  <2> QED
    BY <1>6, <2>1, <2>2 DEF Run
<1>8. /\ done.stage = s.run.current /\ done.attempts = s.run.attempts /\ done.output = id
  BY <1>2
<1>9. /\ r.receipts = Append(s.run.receipts, done) /\ r.attempts = 0 /\ r.failure = NoFailure
      /\ Done(s) = 7 => r.status = "succeeded" /\ r.current = NoStage
      /\ Done(s) # 7 => r.status = "ready" /\ r.current = Stages[Done(s) + 2]
  <2>1. /\ r.receipts = receipts /\ r.attempts = 0 /\ r.failure = NoFailure
        /\ r.status = status /\ r.current = next
    BY <1>6
  <2>2. next = NoStage <=> Done(s) = 7
    BY <1>5
  <2> QED
    BY <1>3, <1>5, <1>6, <2>1, <2>2, Zenon
<1> QED
  BY <1>7, <1>8, <1>9, Zenon DEF NextRun

\* An output that passes validate_output and the quality gate.
CompletedAt(s, o) == [Recorded(s, o, "accepted") EXCEPT !.run = complete_stage(s.run, o.id)]

LEMMA CompleteLegal ==
    ASSUME NEW s \in State, Legal(s), s.run.status = "running",
           NEW o \in Outputs(s.run.current), validate_output(s, s.run.current, o),
           s.run.current = "validate" => o.passed,
           NEW t, t = CompletedAt(s, o)
    PROVE  NextStage(s, t)
<1>1. /\ Done(s) \in 0..7 /\ s.run.current = Stages[Done(s) + 1]
      /\ s.run.current \in StageNames
  BY RunningState
<1>2. /\ o.id \in Nat /\ o.package \in Nat /\ o.passed \in BOOLEAN
      /\ o.id # 0 /\ (s.run.current = "pack" => o.id = o.package)
  BY OutputFacts DEF validate_output
<1>3. PICK r : r = complete_stage(s.run, o.id)
  OBVIOUS
<1>4. PICK done \in Receipt : NextRun(s, r, o.id, done)
  BY <1>2, <1>3, CompleteRun
<1>5. PICK rec \in Record : RecordedAs(s, t, o, "accepted", r, rec)
  <2>1. t = [Recorded(s, o, "accepted") EXCEPT !.run = r]
    BY <1>3 DEF CompletedAt
  <2> QED
    BY <1>1, <1>2, <1>4, <2>1, Recording, Zenon DEF NextRun
<1>6. Packed(s) = PackId(s)
  BY PackedAt DEF Legal
<1>7. Completes(s, t, rec, done)
  <2>1. /\ rec.stage = s.run.current /\ rec.attempt = s.run.attempts
        /\ rec.accepted /\ rec.id = o.id
        /\ t.run = r /\ t.failures = s.failures /\ t.stages = Append(s.stages, rec)
    BY <1>5 DEF RecordedAs, RecordOf, KeptAs
  <2>2. /\ s.run.current = "pack" <=> Done(s) = 5
        /\ s.run.current = "validate" <=> Done(s) = 6
        /\ s.run.current = "publish" <=> Done(s) = 7
    BY <1>1, StageIndex
  <2>3. /\ Done(s) = 5 => t.physical = rec.id
        /\ Done(s) # 5 => t.physical = s.physical
    BY <1>2, <1>5, <2>1, <2>2, Zenon DEF RecordedAs, RecordOf, KeptAs
  <2>4. /\ Done(s) = 6 => t.quality.package = PackId(s) /\ t.quality.passed
        /\ Done(s) # 6 => t.quality = s.quality
    <3>1. Done(s) = 6 => o.package = PackId(s) /\ o.passed
      BY <1>6, <2>2 DEF validate_output
    <3>2. "accepted" # "contract"
      OBVIOUS
    <3> QED
      BY <1>5, <2>2, <3>1, <3>2, Zenon DEF RecordedAs, RecordOf, KeptAs
  <2>5. /\ Done(s) = 7 => t.published = PackId(s)
        /\ Done(s) # 7 => t.published = s.published
    <3>1. Done(s) = 7 => o.package = PackId(s)
      BY <1>6, <2>2 DEF validate_output
    <3> QED
      BY <1>5, <2>2, <3>1, Zenon DEF RecordedAs, RecordOf, KeptAs
  <2> QED
    BY <1>2, <1>4, <2>1, <2>3, <2>4, <2>5, Zenon DEF Completes, NextRun
<1>8. t \in State /\ t.run = r
  BY <1>5 DEF RecordedAs, RecordOf, KeptAs
<1>9. Legal(t)
  BY <1>7, <1>8, CompleteFits
<1>10. t.exists = s.exists
  BY DEF CompletedAt, Recorded, State
<1> QED
  BY <1>4, <1>8, <1>9, <1>10, Zenon DEF NextRun, NextStage

=============================================================================
