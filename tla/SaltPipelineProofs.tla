------------------------- MODULE SaltPipelineProofs -------------------------
(***************************************************************************)
(* Proofs about SaltPipeline, for every set of processes and packages and  *)
(* every number of faults and driver failures.                             *)
(*                                                                         *)
(* The inductive invariant says of every state of a run, whether it is in  *)
(* memory, on disk or may be on disk after a power loss, that it is Legal, *)
(* keeps what was acknowledged, and is at or after what the driver was     *)
(* last asked for; and it relates the state in memory to those on disk.    *)
(***************************************************************************)
EXTENDS SaltStateProofs

----------------------------------------------------------------------------
(***************************************************************************)
(* The inductive invariant.                                                *)
(***************************************************************************)
Final(s) == s.run.status \in {"succeeded", "terminal"}

\* The driver was asked for d no later than for the attempt the run is at.
Behind(d, run) ==
    \/ Position(d.stage) <= Len(run.receipts)
    \/ Position(d.stage) = Len(run.receipts) + 1 /\ d.attempt <= run.attempts

Before(d, run) ==
    \/ Position(d.stage) <= Len(run.receipts)
    \/ Position(d.stage) = Len(run.receipts) + 1 /\ d.attempt < run.attempts

\* The run has the completed stages that a persist returned Ok for.
Keeps(run, receipts) ==
    /\ Len(receipts) <= Len(run.receipts)
    /\ \A i \in DOMAIN receipts : receipts[i] = run.receipts[i]

Follows(s) ==
    /\ Legal(s)
    /\ Keeps(s.run, acked)
    /\ \A i \in DOMAIN driven : Behind(driven[i], s.run)

\* What the driver is asked for.
Ask == [stage : StageNames, attempt : Nat]

Claimed(p) == pc[p].at = "drive" \/ pc[p].then = "drive"

Types ==
    /\ dir \in [live : [{"state"} -> State], crash : SUBSET [{"state"} -> State]]
    /\ dir.live \in dir.crash
    /\ lock \in Procs \cup {Nobody}
    /\ pc \in [Procs -> [at : {"out", "ready", "drive", "rename", "sync"},
                         then : {"none", "ready", "drive", "drop"}]]
    /\ mem \in [Procs -> State]
    /\ acked \in Seq(Receipt)
    /\ driven \in Seq(Ask)
    /\ faults \in 0..MaxFaults /\ failures \in 0..MaxFailures

\* Only the owner of the lock has a pipeline object.
Locked == \A p \in Procs : pc[p].at # "out" => lock = p

OnDisk == \A s \in Images : Follows(s) /\ (s.exists \/ s = NoState)

\* What holds of the process that has the lock.
Inside(p) ==
    /\ Follows(mem[p]) /\ mem[p].exists
    /\ pc[p].at \in {"ready", "sync"} => mem[p] = Stored
    /\ pc[p].at = "rename" => ~Final(Stored)
    /\ pc[p].at \in {"rename", "sync"} => pc[p].then # "none"
    /\ pc[p].at = "drive" => Images = {mem[p]} /\ acked = mem[p].run.receipts
    /\ Claimed(p) => /\ mem[p].run.status = "running"
                     /\ \A i \in DOMAIN driven : Before(driven[i], mem[p].run)

InMemory == \A p \in Procs : pc[p].at # "out" => Inside(p)

\* Two states may survive a power loss only while one of them goes on.
FinalAlone == (\A s \in Images : Final(s)) => Images = {Stored}

DrivenInOrder == \A i \in DOMAIN driven : Position(driven[i].stage) <= Len(acked) + 1

SaltInv == Types /\ Locked /\ OnDisk /\ InMemory /\ FinalAlone /\ DrivenInOrder /\ AttemptsGrow

----------------------------------------------------------------------------
(***************************************************************************)
(* The work directory.                                                     *)
(***************************************************************************)

\* A rename adds the state to what may survive, and makes it the live one.
LEMMA RenameImages ==
    ASSUME Types, NEW m \in State, dir' = Rename(dir, "state", m)
    PROVE  /\ Stored' = m /\ Images' = Images \cup {m}
           /\ dir' \in [live : [{"state"} -> State], crash : SUBSET [{"state"} -> State]]
           /\ dir'.live \in dir'.crash
<1>1. PICK put : put = [image \in [{"state"} -> State] |-> [image EXCEPT !["state"] = m]]
  BY Zenon
<1>2. \A image \in [{"state"} -> State] :
         /\ put[image] = [image EXCEPT !["state"] = m]
         /\ put[image] \in [{"state"} -> State] /\ put[image]["state"] = m
  BY <1>1, Zenon
<1>3. /\ dir.live \in [{"state"} -> State] /\ dir.live \in dir.crash
      /\ dir.crash \subseteq [{"state"} -> State]
  BY DEF Types
<1>4. /\ dir'.live = put[dir.live]
      /\ dir'.crash = dir.crash \cup {put[image] : image \in dir.crash}
      /\ dir' = [live |-> dir'.live, crash |-> dir'.crash]
  BY <1>2, <1>3 DEF Rename
<1>5. \A i : i \in dir'.crash <=> i \in dir.crash \/ \E image \in dir.crash : i = put[image]
  BY <1>4, Zenon
<1>6. \A image \in dir.crash : put[image] \in [{"state"} -> State] /\ put[image]["state"] = m
  BY <1>2, <1>3, Zenon
<1>7. dir'.live \in dir'.crash /\ dir'.live \in [{"state"} -> State]
  BY <1>3, <1>4, <1>5, <1>6, Zenon
<1>8. dir'.crash \subseteq [{"state"} -> State]
  <2>1. ASSUME NEW i \in dir'.crash  PROVE i \in [{"state"} -> State]
    <3>1. CASE i \in dir.crash
      BY <1>3, <3>1, Zenon
    <3>2. CASE \E image \in dir.crash : i = put[image]
      BY <1>6, <3>2
    <3> QED
      BY <1>5, <2>1, <3>1, <3>2, Zenon
  <2> QED
    BY <2>1, Zenon
<1>9. Stored' = m
  BY <1>3, <1>4, <1>6, Zenon DEF Stored
<1>10. Images' = Images \cup {m}
  <2>1. \A s : s \in Images <=> \E image \in dir.crash : s = image["state"]
    BY <1>3, Zenon DEF Images
  <2>2. \A s : s \in Images' <=> \E image \in dir'.crash : s = image["state"]
    BY <1>7, Zenon DEF Images
  <2>3. \A image \in dir.crash : image \in dir'.crash /\ put[image] \in dir'.crash
                                   /\ put[image]["state"] = m
    BY <1>5, <1>6, Zenon
  <2>4. ASSUME NEW i \in dir'.crash, i \notin dir.crash  PROVE i["state"] = m
    <3>1. PICK image \in dir.crash : i = put[image]
      BY <1>5, <2>4, Zenon
    <3> QED
      BY <1>6, <3>1
  <2> QED
    BY <1>3, <2>1, <2>2, <2>3, <2>4
<1> QED
  BY <1>4, <1>7, <1>8, <1>9, <1>10

\* After the directory fsync, and after a power loss, one state is left.
LEMMA SettledImages ==
    ASSUME Types, NEW image \in dir.crash, dir' = Settled(image)
    PROVE  /\ Stored' = image["state"] /\ Images' = {Stored'}
           /\ Stored' \in Images
           /\ dir' \in [live : [{"state"} -> State], crash : SUBSET [{"state"} -> State]]
           /\ dir'.live \in dir'.crash
<1>1. image \in [{"state"} -> State]
  BY DEF Types
<1>2. dir'.live = image /\ dir'.crash = {image} /\ dir' = [live |-> image, crash |-> {image}]
  BY DEF Settled
<1>3. Stored' = image["state"]
  BY <1>2 DEF Stored
<1>4. Images' = {Stored'}
  BY <1>2, <1>3 DEF Images
<1>5. Stored' \in Images
  BY <1>3 DEF Images
<1> QED
  BY <1>1, <1>2, <1>3, <1>4, <1>5

LEMMA StoredImage ==
    ASSUME Types
    PROVE  Stored \in Images /\ Images \subseteq State
<1>1. dir.live \in [{"state"} -> State] /\ dir.crash \subseteq [{"state"} -> State]
  BY DEF Types
<1>2. \A image \in dir.crash \cup {dir.live} : image["state"] \in State
  BY <1>1
<1> QED
  BY <1>2, Zenon DEF Stored, Images

----------------------------------------------------------------------------
(***************************************************************************)
(* The processes.                                                          *)
(***************************************************************************)

\* Only one process has a pipeline object.
LEMMA Alone ==
    ASSUME SaltInv, NEW p \in Procs, pc[p].at # "out"
    PROVE  /\ lock = p /\ Inside(p)
           /\ \A q \in Procs : q # p => pc[q].at = "out"
BY Zenon DEF SaltInv, Locked, InMemory

LEMMA NoneInside ==
    ASSUME SaltInv, LockFree
    PROVE  \A q \in Procs : pc[q].at = "out"
BY SaltAssumption, Zenon DEF SaltInv, Locked, LockFree

\* Nothing is said of the disk and the driver but by dir, acked and driven.
LEMMA SameDisk ==
    ASSUME SaltInv, UNCHANGED <<dir, acked, driven>>
    PROVE  /\ OnDisk' /\ FinalAlone' /\ DrivenInOrder' /\ AttemptsGrow'
           /\ Images' = Images /\ Stored' = Stored
<1>1. dir' = dir /\ acked' = acked /\ driven' = driven
  OBVIOUS
<1>2. Images' = Images /\ Stored' = Stored
  BY <1>1, Zenon DEF Images, Stored
<1>3. \A s : Follows(s)' <=> Follows(s)
  BY <1>1, Zenon DEF Follows
<1>4. OnDisk'
  BY <1>2, <1>3, Zenon DEF SaltInv, OnDisk
<1>5. FinalAlone'
  BY <1>2, Zenon DEF SaltInv, FinalAlone
<1>6. DrivenInOrder' /\ AttemptsGrow'
  BY <1>1, Zenon DEF SaltInv, DrivenInOrder, AttemptsGrow
<1> QED
  BY <1>2, <1>4, <1>5, <1>6

\* The process that had the lock is gone.
LEMMA Dropped ==
    ASSUME SaltInv, NEW p \in Procs, pc[p].at # "out", Drop(p)
    PROVE  /\ Locked' /\ InMemory'
           /\ lock' \in Procs \cup {Nobody}
           /\ pc' \in [Procs -> [at : {"out", "ready", "drive", "rename", "sync"},
                                 then : {"none", "ready", "drive", "drop"}]]
           /\ mem' \in [Procs -> State]
<1>1. \A q \in Procs : q # p => pc[q].at = "out"
  BY Alone, Zenon
<1>2. NoState \in State
  BY NewLegal, Zenon
<1>3. /\ pc \in [Procs -> [at : {"out", "ready", "drive", "rename", "sync"},
                           then : {"none", "ready", "drive", "drop"}]]
      /\ mem \in [Procs -> State]
  BY DEF SaltInv, Types
<1>4. \A q \in Procs : pc'[q].at = "out"
  BY <1>1, <1>3 DEF Drop, At
<1> QED
  BY <1>2, <1>3, <1>4 DEF Drop, At, Locked, InMemory

\* The process p moves on inside the lock.
LEMMA Moves ==
    ASSUME SaltInv, NEW p \in Procs, \A q \in Procs : q # p => pc[q].at = "out",
           lock' = p, Inside(p)',
           NEW place \in [at : {"out", "ready", "drive", "rename", "sync"},
                          then : {"none", "ready", "drive", "drop"}],
           pc' = [pc EXCEPT ![p] = place],
           NEW s \in State, mem' = [mem EXCEPT ![p] = s]
    PROVE  /\ Locked' /\ InMemory'
           /\ lock' \in Procs \cup {Nobody}
           /\ pc' \in [Procs -> [at : {"out", "ready", "drive", "rename", "sync"},
                                 then : {"none", "ready", "drive", "drop"}]]
           /\ mem' \in [Procs -> State]
<1>1. /\ pc \in [Procs -> [at : {"out", "ready", "drive", "rename", "sync"},
                           then : {"none", "ready", "drive", "drop"}]]
      /\ mem \in [Procs -> State]
  BY DEF SaltInv, Types
<1>2. \A q \in Procs : q # p => pc'[q].at = "out"
  BY <1>1
<1> QED
  BY <1>1, <1>2 DEF Locked, InMemory

LEMMA Element ==
    ASSUME NEW T, NEW q \in Seq(T), NEW i \in DOMAIN q
    PROVE  q[i] \in T
OBVIOUS

\* A later attempt of the same stage follows what the earlier one followed.
LEMMA Carries ==
    ASSUME Types, NEW s \in State, Follows(s), NEW t \in State, Legal(t),
           t.run.receipts = s.run.receipts
    PROVE  /\ t.run.attempts = s.run.attempts => Follows(t)
           /\ t.run.attempts = s.run.attempts + 1 =>
                 Follows(t) /\ \A i \in DOMAIN driven : Before(driven[i], t.run)
<1>1. Keeps(t.run, acked)
  BY DEF Follows, Keeps
<1>2. s.run.attempts \in Nat /\ t.run.attempts \in Nat
  BY DEF State, Run
<1>3. ASSUME NEW i \in DOMAIN driven
      PROVE  /\ t.run.attempts = s.run.attempts => Behind(driven[i], t.run)
             /\ t.run.attempts = s.run.attempts + 1 =>
                   Behind(driven[i], t.run) /\ Before(driven[i], t.run)
  <2>1. Behind(driven[i], s.run)
    BY DEF Follows
  <2>2. driven[i].attempt \in Nat
    <3>1. driven \in Seq(Ask)
      BY DEF Types
    <3>2. driven[i] \in Ask
      BY <3>1, Element, Zenon
    <3> QED
      BY <3>2 DEF Ask
  <2>3. PICK n : n = Len(s.run.receipts) /\ n = Len(t.run.receipts)
    BY Zenon
  <2>4. PICK x : x = Position(driven[i].stage)
    OBVIOUS
  <2>5. x <= n \/ (x = n + 1 /\ driven[i].attempt <= s.run.attempts)
    BY <2>1, <2>3, <2>4, Zenon DEF Behind
  <2>6. CASE x <= n
    BY <2>3, <2>4, <2>6, Zenon DEF Behind, Before
  <2>7. CASE x = n + 1 /\ driven[i].attempt <= s.run.attempts
    <3>1. /\ t.run.attempts = s.run.attempts => driven[i].attempt <= t.run.attempts
          /\ t.run.attempts = s.run.attempts + 1 =>
                driven[i].attempt <= t.run.attempts /\ driven[i].attempt < t.run.attempts
      BY <1>2, <2>2, <2>7
    <3> QED
      BY <2>3, <2>4, <2>7, <3>1, Zenon DEF Behind, Before
  <2> QED
    BY <2>5, <2>6, <2>7
<1> QED
  BY <1>1, <1>3 DEF Follows

\* The failed attempt follows what the claimed one followed.
LEMMA Fails ==
    ASSUME Types, NEW s \in State, Follows(s), s.run.status = "running",
           NEW code \in Codes, NEW retryable \in BOOLEAN,
           NEW t, t = FailedAt(s, code, retryable)
    PROVE  /\ t \in State /\ Legal(t) /\ Follows(t) /\ t.exists = s.exists
           /\ t.run.receipts = s.run.receipts /\ t.run.attempts = s.run.attempts
<1>1. Legal(s)
  BY DEF Follows
<1>2. /\ t \in State /\ Legal(t)
      /\ t.run.receipts = s.run.receipts /\ t.run.attempts = s.run.attempts
      /\ t.exists = s.exists
  <2>1. SameStage(s, t)
    BY <1>1, FailLegal
  <2> QED
    BY <2>1, Zenon DEF SameStage
<1>3. Follows(t)
  BY <1>2, Carries
<1> QED
  BY <1>2, <1>3

\* No state and a new state differ only in the file's existence.
LEMMA NewFollows ==
    ASSUME Follows(NoState)
    PROVE  Follows(NewState) /\ NewState.exists /\ ~NoState.exists
<1>1. NewState.run = NoState.run /\ NewState.exists /\ ~NoState.exists
  BY DEF NewState, NoState
<1>2. Legal(NewState)
  BY NewLegal
<1> QED
  BY <1>1, <1>2 DEF Follows

----------------------------------------------------------------------------
(***************************************************************************)
(* The inductive step.                                                     *)
(***************************************************************************)
LEMMA SaltInit == Init => SaltInv
<1> SUFFICES ASSUME Init PROVE SaltInv
  OBVIOUS
<1>1. NoState \in State /\ Legal(NoState) /\ ~Final(NoState)
  BY NewLegal DEF Final
<1>2. PICK image : image = [f \in {"state"} |-> NoState]
  BY Zenon
<1>3. /\ image \in [{"state"} -> State] /\ image["state"] = NoState
      /\ dir.live = image /\ dir.crash = {image} /\ dir = [live |-> image, crash |-> {image}]
  BY <1>1, <1>2, Zenon DEF Init, Settled
<1>4. Images = {NoState} /\ Stored = NoState
  BY <1>3 DEF Images, Stored
<1>5. acked = << >> /\ driven = << >> /\ DOMAIN acked = {} /\ DOMAIN driven = {}
      /\ Len(acked) = 0 /\ Len(driven) = 0
  BY DEF Init
<1>6. \A p \in Procs : pc[p].at = "out"
  BY DEF Init, At
<1>7. Types
  <2>1. acked \in Seq(Receipt) /\ driven \in Seq(Ask)
    BY <1>5
  <2>2. pc \in [Procs -> [at : {"out", "ready", "drive", "rename", "sync"},
                          then : {"none", "ready", "drive", "drop"}]]
    BY DEF Init, At
  <2>3. mem \in [Procs -> State] /\ lock \in Procs \cup {Nobody}
    BY <1>1 DEF Init
  <2>4. faults \in 0..MaxFaults /\ failures \in 0..MaxFailures
    BY SaltAssumption DEF Init
  <2>5. dir \in [live : [{"state"} -> State], crash : SUBSET [{"state"} -> State]]
    BY <1>3
  <2> QED
    BY <1>3, <2>1, <2>2, <2>3, <2>4, <2>5 DEF Types
<1>8. Follows(NoState)
  <2>1. Len(NoState.run.receipts) = 0
    BY NewLegal
  <2> QED
    BY <1>1, <1>5, <2>1 DEF Follows, Keeps
<1>9. Locked /\ InMemory
  BY <1>6, Zenon DEF Locked, InMemory
<1>10. OnDisk /\ FinalAlone
  BY <1>4, <1>8 DEF OnDisk, FinalAlone
<1>11. DrivenInOrder /\ AttemptsGrow
  BY <1>5 DEF DrivenInOrder, AttemptsGrow
<1> QED
  BY <1>7, <1>9, <1>10, <1>11 DEF SaltInv

\* The places a step moves to.
LEMMA Places ==
    /\ \A x \in {"ready", "drive"} :
          /\ At(x) \in [at : {"out", "ready", "drive", "rename", "sync"},
                        then : {"none", "ready", "drive", "drop"}]
          /\ At(x).at = x /\ At(x).then = "none"
    /\ \A x \in {"ready", "drive", "drop"} :
          /\ Persist(x) \in [at : {"out", "ready", "drive", "rename", "sync"},
                             then : {"none", "ready", "drive", "drop"}]
          /\ Persist(x).at = "rename" /\ Persist(x).then = x
BY DEF At, Persist

\* start: a new state, a state as it was stored, or an interrupted one.
LEMMA StartStep ==
    ASSUME SaltInv, NEW p \in Procs, Start(p)
    PROVE  SaltInv'
<1>1. /\ dir' = dir /\ acked' = acked /\ driven' = driven /\ faults' = faults
      /\ failures' = failures /\ lock' = p
  BY DEF Start
<1>2. /\ OnDisk' /\ FinalAlone' /\ DrivenInOrder' /\ AttemptsGrow'
      /\ Images' = Images /\ Stored' = Stored
  BY <1>1, SameDisk
<1>3. \A q \in Procs : q # p => pc[q].at = "out"
  BY NoneInside DEF Start
<1>4. /\ Stored \in State /\ Follows(Stored) /\ (Stored.exists \/ Stored = NoState)
  BY StoredImage DEF SaltInv, OnDisk
<1>5. \A s : Follows(s)' <=> Follows(s)
  BY <1>1, Zenon DEF Follows
<1>6. Types
  BY DEF SaltInv
<1>7. PICK place \in [at : {"out", "ready", "drive", "rename", "sync"},
                      then : {"none", "ready", "drive", "drop"}], s \in State :
         /\ pc' = [pc EXCEPT ![p] = place] /\ mem' = [mem EXCEPT ![p] = s]
         /\ Follows(s) /\ s.exists
         /\ \/ place.at = "ready" /\ place.then = "none" /\ s = Stored
            \/ place.at = "rename" /\ place.then = "ready" /\ ~Final(Stored)
  <2>1. CASE ~Stored.exists
    <3>1. mem' = [mem EXCEPT ![p] = NewState] /\ pc' = [pc EXCEPT ![p] = Persist("ready")]
      BY <2>1 DEF Start
    <3>2. Follows(NewState) /\ NewState.exists /\ NewState \in State /\ ~Final(Stored)
      BY <1>4, <2>1, NewFollows, NewLegal DEF Final
    <3> QED
      BY <3>1, <3>2, Places, Zenon
  <2>2. CASE Stored.exists /\ Stored.run.status # "running"
    <3>1. mem' = [mem EXCEPT ![p] = Stored] /\ pc' = [pc EXCEPT ![p] = At("ready")]
      BY <2>2 DEF Start, Recovered
    <3> QED
      BY <1>4, <2>2, <3>1, Places, Zenon
  <2>3. CASE Stored.exists /\ Stored.run.status = "running"
    <3>1. PICK b \in BOOLEAN : b = TRUE
      BY Zenon
    <3>2. PICK t : t = FailedAt(Stored, "interrupted", b)
      OBVIOUS
    <3>3. mem' = [mem EXCEPT ![p] = t] /\ pc' = [pc EXCEPT ![p] = Persist("ready")]
      BY <2>3, <3>1, <3>2, Zenon DEF Start, Recovered, recover_interrupted, FailedAt
    <3>4. t \in State /\ Follows(t) /\ t.exists
      <4>1. "interrupted" \in Codes
        BY DEF Codes
      <4>2. t \in State /\ Follows(t) /\ t.exists = Stored.exists
        BY <1>4, <1>6, <2>3, <3>2, <4>1, Fails, Zenon
      <4> QED
        BY <2>3, <4>2
    <3>5. ~Final(Stored)
      BY <2>3 DEF Final
    <3> QED
      BY <3>3, <3>4, <3>5, Places, Zenon
  <2> QED
    BY <2>1, <2>2, <2>3
<1>8. Inside(p)'
  <2>1. pc'[p] = place /\ mem'[p] = s
    BY <1>6, <1>7 DEF Types
  <2> QED
    BY <1>2, <1>5, <1>7, <2>1 DEF Inside, Claimed, Final
<1>9. /\ Locked' /\ InMemory'
      /\ lock' \in Procs \cup {Nobody}
      /\ pc' \in [Procs -> [at : {"out", "ready", "drive", "rename", "sync"},
                            then : {"none", "ready", "drive", "drop"}]]
      /\ mem' \in [Procs -> State]
  BY <1>1, <1>3, <1>7, <1>8, Moves, Zenon
<1>10. Types'
  BY <1>1, <1>6, <1>9, Zenon DEF Types
<1> QED
  BY <1>2, <1>9, <1>10, Zenon DEF SaltInv

\* advance: the stage is claimed, or the outcome is final.
LEMMA AdvanceStep ==
    ASSUME SaltInv, NEW p \in Procs, Advance(p)
    PROVE  SaltInv'
<1>1. /\ dir' = dir /\ acked' = acked /\ driven' = driven /\ faults' = faults
      /\ failures' = failures /\ pc[p].at = "ready" /\ pc[p].at # "out"
  BY DEF Advance
<1>2. /\ OnDisk' /\ FinalAlone' /\ DrivenInOrder' /\ AttemptsGrow'
      /\ Images' = Images /\ Stored' = Stored
  BY <1>1, SameDisk, Zenon
<1>3. lock = p /\ Inside(p) /\ \A q \in Procs : q # p => pc[q].at = "out"
  BY <1>1, Alone, Zenon
<1>4. \A s : Follows(s)' <=> Follows(s)
  BY <1>1, Zenon DEF Follows
<1>5. Types /\ mem[p] \in State
  BY DEF SaltInv, Types
<1>6. /\ Locked' /\ InMemory'
      /\ lock' \in Procs \cup {Nobody}
      /\ pc' \in [Procs -> [at : {"out", "ready", "drive", "rename", "sync"},
                            then : {"none", "ready", "drive", "drop"}]]
      /\ mem' \in [Procs -> State]
  <2>1. CASE ~MayBegin(mem[p].run)
    <3>1. Drop(p)
      BY <2>1 DEF Advance
    <3> QED
      BY <1>1, <3>1, Dropped, Zenon
  <2>2. CASE MayBegin(mem[p].run)
    <3>1. PICK t : t = [mem[p] EXCEPT !.run = begin_stage(mem[p].run)]
      BY Zenon
    <3>2. PICK place : place = Persist("drive")
      OBVIOUS
    <3>3. mem' = [mem EXCEPT ![p] = t] /\ pc' = [pc EXCEPT ![p] = place] /\ lock' = p
      <4>1. /\ mem' = [mem EXCEPT ![p].run = begin_stage(@)]
            /\ pc' = [pc EXCEPT ![p] = ClaimThen] /\ lock' = lock
        BY <2>2, Zenon DEF Advance
      <4> QED
        BY <1>3, <3>1, <3>2, <4>1 DEF ClaimThen
    <3>4. /\ place \in [at : {"out", "ready", "drive", "rename", "sync"},
                        then : {"none", "ready", "drive", "drop"}]
          /\ place.at = "rename" /\ place.then = "drive"
      BY <3>2, Places
    <3>5. Follows(mem[p]) /\ Legal(mem[p]) /\ mem[p].exists /\ mem[p] = Stored
      BY <1>1, <1>3 DEF Inside, Follows
    <3>6. /\ t \in State /\ Legal(t)
          /\ t.run.status = "running" /\ t.run.receipts = mem[p].run.receipts
          /\ t.run.attempts = mem[p].run.attempts + 1
      BY <1>5, <2>2, <3>1, <3>5, BeginLegal, Zenon
    <3>7. Follows(t) /\ \A i \in DOMAIN driven : Before(driven[i], t.run)
      BY <1>5, <3>5, <3>6, Carries
    <3>8. t.exists
      BY <1>5, <3>1, <3>5 DEF State
    <3>9. ~Final(Stored)
      BY <2>2, <3>5 DEF Final, MayBegin
    <3>10. Inside(p)'
      <4>1. pc'[p] = place /\ mem'[p] = t
        BY <1>5, <3>3 DEF Types
      <4>2. ~Final(Stored)'
        BY <1>2, <3>9, Zenon DEF Final
      <4>3. \A i \in DOMAIN driven' : Before(driven'[i], mem'[p].run)
        BY <1>1, <3>7, <4>1, Zenon
      <4>4. Follows(mem[p])'
        BY <1>4, <3>7, <4>1, Zenon
      <4> QED
        BY <3>4, <3>6, <3>8, <4>1, <4>2, <4>3, <4>4 DEF Inside, Claimed
    <3> QED
      BY <1>3, <3>3, <3>4, <3>6, <3>10, Moves, Zenon
  <2> QED
    BY <2>1, <2>2
<1>7. Types'
  BY <1>1, <1>5, <1>6, Zenon DEF Types
<1> QED
  BY <1>2, <1>6, <1>7, Zenon DEF SaltInv

\* The state file is replaced.
LEMMA RenameStep ==
    ASSUME SaltInv, NEW p \in Procs, RenameState(p)
    PROVE  SaltInv'
<1>1. /\ dir' = Rename(dir, "state", mem[p]) /\ acked' = acked /\ driven' = driven
      /\ faults' = faults /\ failures' = failures /\ lock' = lock /\ mem' = mem
      /\ pc[p].at = "rename" /\ pc[p].at # "out" /\ pc' = [pc EXCEPT ![p].at = "sync"]
  BY DEF RenameState
<1>2. lock = p /\ Inside(p) /\ \A q \in Procs : q # p => pc[q].at = "out"
  BY <1>1, Alone, Zenon
<1>3. \A s : Follows(s)' <=> Follows(s)
  BY <1>1, Zenon DEF Follows
<1>4. Types /\ mem[p] \in State /\ pc[p] \in [at : {"out", "ready", "drive", "rename", "sync"},
                                             then : {"none", "ready", "drive", "drop"}]
  BY DEF SaltInv, Types
<1>5. /\ Stored' = mem[p] /\ Images' = Images \cup {mem[p]}
      /\ dir' \in [live : [{"state"} -> State], crash : SUBSET [{"state"} -> State]]
      /\ dir'.live \in dir'.crash
  BY <1>1, <1>4, RenameImages, Zenon
<1>6. /\ Follows(mem[p]) /\ mem[p].exists /\ ~Final(Stored) /\ pc[p].then # "none"
      /\ Claimed(p) => /\ mem[p].run.status = "running"
                       /\ \A i \in DOMAIN driven : Before(driven[i], mem[p].run)
  BY <1>1, <1>2 DEF Inside
<1>7. OnDisk'
  <2>1. ASSUME NEW s \in Images'  PROVE Follows(s) /\ (s.exists \/ s = NoState)
    BY <1>5, <1>6 DEF SaltInv, OnDisk
  <2> QED
    BY <1>3, <2>1, Zenon DEF OnDisk
<1>8. FinalAlone'
  <2>1. Stored \in Images'
    BY <1>4, <1>5, StoredImage
  <2>2. ~(\A s \in Images' : Final(s))
    BY <1>6, <2>1, Zenon
  <2> QED
    BY <2>2, Zenon DEF FinalAlone
<1>9. DrivenInOrder' /\ AttemptsGrow'
  BY <1>1, Zenon DEF SaltInv, DrivenInOrder, AttemptsGrow
<1>10. PICK place : place = [pc[p] EXCEPT !.at = "sync"]
  BY Zenon
<1>11. /\ place \in [at : {"out", "ready", "drive", "rename", "sync"},
                     then : {"none", "ready", "drive", "drop"}]
       /\ place.at = "sync" /\ place.then = pc[p].then
       /\ pc' = [pc EXCEPT ![p] = place] /\ pc'[p] = place
  BY <1>1, <1>4, <1>10, Zenon DEF Types
<1>12. Inside(p)'
  <2>1. mem'[p] = mem[p]
    BY <1>1
  <2>2. Claimed(p)' => Claimed(p)
    BY <1>11 DEF Claimed
  <2>3. Follows(mem[p])' /\ mem'[p].exists /\ mem'[p] = Stored'
    BY <1>3, <1>5, <1>6, <2>1, Zenon
  <2>4. Claimed(p)' => /\ mem'[p].run.status = "running"
                       /\ \A i \in DOMAIN driven' : Before(driven'[i], mem'[p].run)
    BY <1>1, <1>6, <2>1, <2>2, Zenon
  <2> QED
    BY <1>6, <1>11, <2>3, <2>4 DEF Inside
<1>13. /\ Locked' /\ InMemory'
       /\ lock' \in Procs \cup {Nobody}
       /\ pc' \in [Procs -> [at : {"out", "ready", "drive", "rename", "sync"},
                             then : {"none", "ready", "drive", "drop"}]]
       /\ mem' \in [Procs -> State]
  <2>1. mem' = [mem EXCEPT ![p] = mem[p]] /\ lock' = p
    BY <1>1, <1>2, <1>4 DEF Types
  <2> QED
    BY <1>2, <1>4, <1>11, <1>12, <2>1, Moves, Zenon
<1>14. Types'
  BY <1>1, <1>4, <1>5, <1>13, Zenon DEF Types
<1> QED
  BY <1>7, <1>8, <1>9, <1>13, <1>14, Zenon DEF SaltInv

\* The directory fsync: the state in memory is the only one that may survive.
LEMMA SyncStep ==
    ASSUME SaltInv, NEW p \in Procs, SyncState(p)
    PROVE  SaltInv'
<1>1. /\ dir' = Settled(dir.live) /\ acked' = mem[p].run.receipts /\ driven' = driven
      /\ faults' = faults /\ failures' = failures
      /\ pc[p].at = "sync" /\ pc[p].at # "out"
  BY DEF SyncState, Synced
<1>2. lock = p /\ Inside(p) /\ \A q \in Procs : q # p => pc[q].at = "out"
  BY <1>1, Alone, Zenon
<1>3. Types /\ mem[p] \in State /\ pc[p].then \in {"none", "ready", "drive", "drop"}
  BY DEF SaltInv, Types
<1>4. /\ Follows(mem[p]) /\ mem[p].exists /\ mem[p] = Stored /\ pc[p].then # "none"
      /\ Claimed(p) => /\ mem[p].run.status = "running"
                       /\ \A i \in DOMAIN driven : Before(driven[i], mem[p].run)
  BY <1>1, <1>2 DEF Inside
<1>5. /\ Stored' = mem[p] /\ Images' = {mem[p]}
      /\ dir' \in [live : [{"state"} -> State], crash : SUBSET [{"state"} -> State]]
      /\ dir'.live \in dir'.crash
  <2>1. dir.live \in dir.crash
    BY <1>3 DEF Types
  <2>2. /\ Stored' = dir.live["state"] /\ Images' = {Stored'}
        /\ dir' \in [live : [{"state"} -> State], crash : SUBSET [{"state"} -> State]]
        /\ dir'.live \in dir'.crash
    BY <1>1, <1>3, <2>1, SettledImages, Zenon
  <2> QED
    BY <1>4, <2>2 DEF Stored
<1>6. acked \in Seq(Receipt) /\ acked' \in Seq(Receipt) /\ Len(acked) <= Len(acked')
  BY <1>1, <1>3, <1>4, Zenon DEF Types, Follows, Keeps, State, Run
<1>7. PICK s \in State : s = mem[p]
  BY <1>3
<1>8. Follows(s)'
  <2>1. Legal(s) /\ \A i \in DOMAIN driven : Behind(driven[i], s.run)
    BY <1>4, <1>7 DEF Follows
  <2>2. Keeps(s.run, acked')
    BY <1>1, <1>6, <1>7 DEF Keeps
  <2> QED
    BY <1>1, <2>1, <2>2, Zenon DEF Follows
<1>9. OnDisk' /\ FinalAlone'
  <2>1. s.exists
    BY <1>4, <1>7
  <2>2. OnDisk'
    BY <1>5, <1>7, <1>8, <2>1 DEF OnDisk
  <2> QED
    BY <1>5, <2>2, Zenon DEF FinalAlone
<1>10. DrivenInOrder' /\ AttemptsGrow'
  <2>1. ASSUME NEW i \in DOMAIN driven
        PROVE  Position(driven[i].stage) <= Len(acked') + 1
    <3>1. driven[i] \in Ask
      BY <1>3, Element DEF Types
    <3>2. Position(driven[i].stage) \in 1..8
      BY <3>1, Positions DEF Ask
    <3>3. Position(driven[i].stage) <= Len(acked) + 1
      BY DEF SaltInv, DrivenInOrder
    <3>4. Len(acked) \in Nat /\ Len(acked') \in Nat
      BY <1>6
    <3> QED
      BY <1>6, <3>2, <3>3, <3>4
  <2>2. DrivenInOrder'
    BY <1>1, <2>1, Zenon DEF DrivenInOrder
  <2> QED
    BY <1>1, <2>2, Zenon DEF SaltInv, AttemptsGrow
<1>11. /\ Locked' /\ InMemory'
       /\ lock' \in Procs \cup {Nobody}
       /\ pc' \in [Procs -> [at : {"out", "ready", "drive", "rename", "sync"},
                             then : {"none", "ready", "drive", "drop"}]]
       /\ mem' \in [Procs -> State]
  <2>1. CASE pc[p].then = "drop"
    <3>1. Drop(p)
      BY <2>1 DEF SyncState
    <3> QED
      BY <1>1, <3>1, Dropped, Zenon
  <2>2. CASE pc[p].then # "drop"
    <3>1. pc' = [pc EXCEPT ![p] = At(pc[p].then)] /\ lock' = p /\ mem' = mem
      BY <1>2, <2>2 DEF SyncState
    <3>2. PICK place : place = At(pc[p].then)
      OBVIOUS
    <3>3. /\ place \in [at : {"out", "ready", "drive", "rename", "sync"},
                        then : {"none", "ready", "drive", "drop"}]
          /\ place.at = pc[p].then /\ place.then = "none" /\ place.at \in {"ready", "drive"}
      <4>1. pc[p].then \in {"ready", "drive"}
        BY <1>3, <1>4, <2>2
      <4> QED
        BY <3>2, <4>1, Places
    <3>4. pc'[p] = place /\ mem'[p] = s /\ mem' = [mem EXCEPT ![p] = s]
      BY <1>3, <1>7, <3>1, <3>2 DEF Types
    <3>5. Claimed(p)' => /\ s.run.status = "running"
                         /\ \A i \in DOMAIN driven' : Before(driven'[i], s.run)
      <4>1. Claimed(p)' => Claimed(p)
        BY <3>3, <3>4 DEF Claimed
      <4> QED
        BY <1>1, <1>4, <1>7, <4>1, Zenon
    <3>6. Inside(p)'
      <4>1. Follows(mem[p])'
        BY <1>8, <3>4, Zenon
      <4>2. mem'[p].exists /\ mem'[p] = Stored'
        BY <1>4, <1>5, <1>7, <3>4
      <4>3. Images' = {mem'[p]} /\ acked' = mem'[p].run.receipts
        BY <1>1, <1>5, <1>7, <3>4
      <4>4. place.at # "rename" /\ place.at # "sync"
        BY <3>3
      <4> QED
        BY <3>3, <3>4, <3>5, <4>1, <4>2, <4>3, <4>4, Zenon DEF Inside
    <3> QED
      BY <1>2, <3>1, <3>2, <3>3, <3>4, <3>6, Moves, Zenon
  <2> QED
    BY <2>1, <2>2
<1>12. Types'
  BY <1>1, <1>3, <1>5, <1>6, <1>11, Zenon DEF Types
<1> QED
  BY <1>9, <1>10, <1>11, <1>12, Zenon DEF SaltInv

\* What the driver's answer makes of the claimed attempt.
LEMMA DriveAnswer ==
    ASSUME SaltInv, NEW p \in Procs, Drive(p), NEW s \in State, s = mem[p],
           Follows(s), s.run.status = "running"
    PROVE  /\ failures' \in 0..MaxFailures
           /\ \E t \in State, then \in {"ready", "drop"} :
                 /\ mem' = [mem EXCEPT ![p] = t] /\ pc' = [pc EXCEPT ![p] = Persist(then)]
                 /\ Legal(t) /\ t.exists = s.exists
                 /\ \/ /\ t.run.receipts = s.run.receipts /\ t.run.attempts = s.run.attempts
                    \/ \E done \in Receipt : t.run.receipts = Append(s.run.receipts, done)
<1>1. Types /\ Legal(s) /\ failures \in 0..MaxFailures /\ MaxFailures \in Nat
  BY SaltAssumption DEF SaltInv, Types, Follows
<1>2. CASE \E retryable \in BOOLEAN :
              /\ retryable => failures < MaxFailures
              /\ failures' = IF retryable THEN failures + 1 ELSE failures
              /\ mem' = [mem EXCEPT ![p] =
                    Failed(FailureRecorded(s, "driver", retryable), "driver", retryable)]
              /\ pc' = [pc EXCEPT ![p] = Persist("drop")]
  <2>1. PICK retryable \in BOOLEAN :
           /\ retryable => failures < MaxFailures
           /\ failures' = IF retryable THEN failures + 1 ELSE failures
           /\ mem' = [mem EXCEPT ![p] =
                 Failed(FailureRecorded(s, "driver", retryable), "driver", retryable)]
           /\ pc' = [pc EXCEPT ![p] = Persist("drop")]
    BY <1>2, Zenon
  <2>2. PICK t : t = FailedAt(s, "driver", retryable)
    OBVIOUS
  <2>3. t = Failed(FailureRecorded(s, "driver", retryable), "driver", retryable)
    BY <2>2 DEF FailedAt, Failed, FailureRecorded, State
  <2>4. /\ t \in State /\ Legal(t) /\ t.exists = s.exists
        /\ t.run.receipts = s.run.receipts /\ t.run.attempts = s.run.attempts
    <3>1. "driver" \in Codes
      BY DEF Codes
    <3>2. SameStage(s, t)
      BY <1>1, <2>2, <3>1, FailLegal
    <3> QED
      BY <3>2, Zenon DEF SameStage
  <2>5. failures' \in 0..MaxFailures
    BY <1>1, <2>1
  <2>6. mem' = [mem EXCEPT ![p] = t]
    BY <2>1, <2>3, Zenon
  <2> QED
    BY <2>1, <2>4, <2>5, <2>6, Zenon
<1>3. CASE \E o \in Outputs(s.run.current) :
              /\ IF ~validate_output(s, s.run.current, o)
                   THEN /\ mem' = [mem EXCEPT ![p] = RejectedAt(s, o, "contract")]
                        /\ pc' = [pc EXCEPT ![p] = Persist("drop")]
                 ELSE IF s.run.current = "validate" /\ ~o.passed
                   THEN /\ mem' = [mem EXCEPT ![p] = RejectedAt(s, o, "quality")]
                        /\ pc' = [pc EXCEPT ![p] = Persist("drop")]
                 ELSE /\ mem' = [mem EXCEPT ![p] = CompletedAt(s, o)]
                      /\ pc' = [pc EXCEPT ![p] = Persist("ready")]
              /\ UNCHANGED failures
  <2>1. PICK o \in Outputs(s.run.current) :
           /\ IF ~validate_output(s, s.run.current, o)
                THEN /\ mem' = [mem EXCEPT ![p] = RejectedAt(s, o, "contract")]
                     /\ pc' = [pc EXCEPT ![p] = Persist("drop")]
              ELSE IF s.run.current = "validate" /\ ~o.passed
                THEN /\ mem' = [mem EXCEPT ![p] = RejectedAt(s, o, "quality")]
                     /\ pc' = [pc EXCEPT ![p] = Persist("drop")]
              ELSE /\ mem' = [mem EXCEPT ![p] = CompletedAt(s, o)]
                   /\ pc' = [pc EXCEPT ![p] = Persist("ready")]
           /\ failures' = failures
    BY <1>3, Zenon
  <2>2. ASSUME NEW disposition \in {"contract", "quality"},
               disposition = "quality" => /\ validate_output(s, s.run.current, o)
                                          /\ s.run.current = "validate" /\ ~o.passed,
               mem' = [mem EXCEPT ![p] = RejectedAt(s, o, disposition)],
               pc' = [pc EXCEPT ![p] = Persist("drop")]
        PROVE  \E t \in State :
                  /\ mem' = [mem EXCEPT ![p] = t] /\ pc' = [pc EXCEPT ![p] = Persist("drop")]
                  /\ Legal(t) /\ t.exists = s.exists
                  /\ t.run.receipts = s.run.receipts /\ t.run.attempts = s.run.attempts
    <3>1. PICK t : t = RejectedAt(s, o, disposition)
      OBVIOUS
    <3>2. /\ t \in State /\ Legal(t) /\ t.exists = s.exists
          /\ t.run.receipts = s.run.receipts /\ t.run.attempts = s.run.attempts
      <4>1. SameStage(s, t)
        BY <1>1, <2>2, <3>1, RejectLegal
      <4> QED
        BY <4>1, Zenon DEF SameStage
    <3> QED
      BY <2>2, <3>1, <3>2, Zenon
  <2>3. CASE ~validate_output(s, s.run.current, o)
    BY <1>1, <2>1, <2>2, <2>3, Zenon
  <2>4. CASE validate_output(s, s.run.current, o) /\ s.run.current = "validate" /\ ~o.passed
    BY <1>1, <2>1, <2>2, <2>4, Zenon
  <2>5. CASE validate_output(s, s.run.current, o) /\ ~(s.run.current = "validate" /\ ~o.passed)
    <3>1. PICK t : t = CompletedAt(s, o)
      OBVIOUS
    <3>2. s.run.current = "validate" => o.passed
      BY <2>5
    <3>3. /\ t \in State /\ Legal(t) /\ t.exists = s.exists
          /\ \E done \in Receipt : t.run.receipts = Append(s.run.receipts, done)
      <4>1. NextStage(s, t)
        BY <1>1, <2>5, <3>1, <3>2, CompleteLegal
      <4> QED
        BY <4>1, Zenon DEF NextStage
    <3>4. mem' = [mem EXCEPT ![p] = t] /\ pc' = [pc EXCEPT ![p] = Persist("ready")]
      BY <2>1, <2>5, <3>1, Zenon
    <3> QED
      BY <1>1, <2>1, <3>3, <3>4, Zenon
  <2> QED
    BY <2>3, <2>4, <2>5, Zenon
<1> QED
  BY <1>2, <1>3, Zenon DEF Drive, RejectedAt, CompletedAt

\* Stage and attempt grow along q: AttemptsGrow is Grow(driven).
Grow(q) ==
    \A i \in 1..(Len(q) - 1) :
        \/ Position(q[i].stage) < Position(q[i + 1].stage)
        \/ q[i].stage = q[i + 1].stage /\ q[i].attempt < q[i + 1].attempt

\* The attempt the driver is asked for is after all those before it.
LEMMA DriveOrder ==
    ASSUME NEW s \in State, Legal(s), s.run.status = "running",
           NEW q \in Seq(Ask), \A i \in DOMAIN q : Before(q[i], s.run),
           NEW d \in Ask, d.stage = s.run.current, d.attempt = s.run.attempts,
           NEW new, new = Append(q, d)
    PROVE  /\ new \in Seq(Ask) /\ DOMAIN new # {}
           /\ \A i \in DOMAIN new :
                 Behind(new[i], s.run) /\ Position(new[i].stage) \in 1..(Done(s) + 1)
           /\ Grow(q) => Grow(new)
<1>1. /\ Done(s) \in 0..7 /\ Done(s) + 1 \in 1..8 /\ s.run.current = Stages[Done(s) + 1]
      /\ s.run.current \in StageNames /\ s.run.attempts \in Nat
  BY RunningState
<1>2. Position(d.stage) = Done(s) + 1
  BY <1>1, Positions
<1>3. /\ new \in Seq(Ask)
      /\ Len(q) \in Nat /\ Len(new) = Len(q) + 1
      /\ \A i \in 1..Len(q) : new[i] = q[i]
      /\ new[Len(q) + 1] = d
  BY Extended
<1>4. DOMAIN new = 1..(Len(q) + 1) /\ DOMAIN q = 1..Len(q)
  BY <1>3
<1>5. \A i \in 1..Len(q) : /\ q[i] \in Ask
                           /\ Before(q[i], s.run)
  <2>1. \A i \in DOMAIN q : Before(q[i], s.run)
    BY Zenon
  <2> QED
    BY <1>4, <2>1, Element, Zenon
<1>6. ASSUME NEW i \in 1..Len(q)
      PROVE  /\ Position(q[i].stage) \in 1..8 /\ Stages[Position(q[i].stage)] = q[i].stage
             /\ q[i].attempt \in Nat
             /\ \/ Position(q[i].stage) <= Done(s)
                \/ Position(q[i].stage) = Done(s) + 1 /\ q[i].attempt < s.run.attempts
  <2>1. q[i].stage \in StageNames /\ q[i].attempt \in Nat
    BY <1>5 DEF Ask
  <2>2. Position(q[i].stage) \in 1..8 /\ Stages[Position(q[i].stage)] = q[i].stage
    BY <2>1, Positions
  <2> QED
    BY <1>5, <2>1, <2>2, Zenon DEF Before, Done
<1>7. ASSUME NEW i \in DOMAIN new
       PROVE  Behind(new[i], s.run) /\ Position(new[i].stage) \in 1..(Done(s) + 1)
  <2>1. CASE i = Len(q) + 1
    <3>1. d.attempt <= s.run.attempts /\ Done(s) + 1 \in 1..(Done(s) + 1)
      BY <1>1
    <3> QED
      BY <1>2, <1>3, <2>1, <3>1 DEF Behind, Done
  <2>2. CASE i \in 1..Len(q)
    <3>1. PICK x, a : x = Position(q[i].stage) /\ a = q[i].attempt
      OBVIOUS
    <3>2. /\ x \in 1..8 /\ a \in Nat
          /\ x <= Done(s) \/ (x = Done(s) + 1 /\ a < s.run.attempts)
      BY <1>6, <2>2, <3>1, Zenon
    <3>3. /\ x <= Done(s) \/ (x = Done(s) + 1 /\ a <= s.run.attempts)
          /\ x \in 1..(Done(s) + 1)
      BY <1>1, <3>2
    <3>4. new[i] = q[i]
      BY <1>3, <2>2, Zenon
    <3> QED
      BY <3>1, <3>3, <3>4, Zenon DEF Behind, Done
  <2> QED
    BY <1>3, <1>4, <2>1, <2>2
<1>8. ASSUME Grow(q), NEW i \in 1..(Len(new) - 1)
       PROVE  \/ Position(new[i].stage) < Position(new[i + 1].stage)
              \/ new[i].stage = new[i + 1].stage /\ new[i].attempt < new[i + 1].attempt
  <2>1. i \in 1..Len(q) /\ new[i] = q[i]
    BY <1>3
  <2>2. CASE i = Len(q)
    <3>1. new[i + 1] = d
      BY <1>3, <2>2
    <3>2. CASE Position(q[i].stage) <= Done(s)
      <4>1. Position(q[i].stage) < Done(s) + 1
        <5>1. PICK x : x = Position(q[i].stage)
          OBVIOUS
        <5>2. x \in 1..8 /\ x <= Done(s)
          BY <1>6, <2>1, <3>2, <5>1, Zenon
        <5>3. x < Done(s) + 1
          BY <1>1, <5>2
        <5> QED
          BY <5>1, <5>3, Zenon
      <4> QED
        BY <1>2, <2>1, <3>1, <4>1
    <3>3. CASE Position(q[i].stage) = Done(s) + 1 /\ q[i].attempt < s.run.attempts
      <4>1. q[i].stage = d.stage
        BY <1>1, <1>6, <2>1, <3>3, Zenon
      <4> QED
        BY <2>1, <3>1, <3>3, <4>1
    <3> QED
      BY <1>6, <2>1, <3>2, <3>3, Zenon
  <2>3. CASE i # Len(q)
    <3>1. i \in 1..(Len(q) - 1) /\ new[i + 1] = q[i + 1]
      BY <1>3, <2>1, <2>3
    <3> QED
      BY <1>8, <2>1, <3>1, Zenon DEF Grow
  <2> QED
    BY <2>2, <2>3
<1>9. DOMAIN new # {}
  BY <1>3, <1>4
<1> QED
  BY <1>3, <1>7, <1>8, <1>9, Zenon DEF Grow

\* The answer follows everything the driver was asked for.
LEMMA AnswerFollows ==
    ASSUME NEW s \in State, NEW t \in State, Legal(t),
           \/ t.run.receipts = s.run.receipts /\ t.run.attempts = s.run.attempts
           \/ \E done \in Receipt : t.run.receipts = Append(s.run.receipts, done),
           NEW d, Position(d.stage) \in 1..(Done(s) + 1), Behind(d, s.run)
    PROVE  Behind(d, t.run) /\ Keeps(t.run, s.run.receipts)
<1>1. CASE t.run.receipts = s.run.receipts /\ t.run.attempts = s.run.attempts
  <2>1. Behind(d, t.run)
    BY <1>1, Zenon DEF Behind
  <2>2. Keeps(t.run, s.run.receipts)
    <3>1. Len(s.run.receipts) <= Len(s.run.receipts)
      BY DEF State, Run
    <3> QED
      BY <1>1, <3>1, Zenon DEF Keeps
  <2> QED
    BY <2>1, <2>2
<1>2. CASE \E done \in Receipt : t.run.receipts = Append(s.run.receipts, done)
  <2>1. PICK done \in Receipt : t.run.receipts = Append(s.run.receipts, done)
    BY <1>2
  <2>2. PICK q \in Seq(Receipt) : q = s.run.receipts
    BY Zenon DEF State, Run
  <2>3. /\ Len(q) \in Nat /\ Len(t.run.receipts) = Len(q) + 1
        /\ \A i \in 1..Len(q) : t.run.receipts[i] = q[i]
    <3>1. t.run.receipts = Append(q, done)
      BY <2>1, <2>2
    <3> QED
      BY <3>1, Extended
  <2>4. Keeps(t.run, s.run.receipts)
    <3>1. DOMAIN q = 1..Len(q) /\ Len(q) <= Len(t.run.receipts)
      BY <2>2, <2>3
    <3> QED
      BY <2>2, <2>3, <3>1, Zenon DEF Keeps
  <2>5. Position(d.stage) <= Len(t.run.receipts)
    BY <2>2, <2>3 DEF Done
  <2> QED
    BY <2>4, <2>5, Zenon DEF Behind
<1> QED
  BY <1>1, <1>2

\* The driver is asked for the claimed attempt, and its answer is recorded.
LEMMA DriveStep ==
    ASSUME SaltInv, NEW p \in Procs, Drive(p)
    PROVE  SaltInv'
<1>1. /\ dir' = dir /\ acked' = acked /\ faults' = faults /\ lock' = lock
      /\ driven' = Append(driven, [stage |-> mem[p].run.current, attempt |-> mem[p].run.attempts])
      /\ pc[p].at = "drive" /\ pc[p].at # "out"
  BY DEF Drive
<1>2. lock = p /\ Inside(p) /\ \A q \in Procs : q # p => pc[q].at = "out"
  BY <1>1, Alone, Zenon
<1>3. Types /\ mem[p] \in State
  BY DEF SaltInv, Types
<1>4. PICK s \in State : s = mem[p]
  BY <1>3
<1>5. /\ Follows(s) /\ Legal(s) /\ s.run.status = "running"
      /\ \A i \in DOMAIN driven : Before(driven[i], s.run)
      /\ Images = {s} /\ acked = s.run.receipts
  BY <1>1, <1>2, <1>4 DEF Inside, Claimed, Follows
<1>6. s.exists
  BY <1>2, <1>4, Zenon DEF Inside
<1>7. Stored = s /\ ~Final(Stored)
  <2>1. Stored = s
    BY <1>3, <1>5, StoredImage
  <2> QED
    BY <1>5, <2>1 DEF Final
<1>8. /\ driven' \in Seq(Ask) /\ DOMAIN driven' # {}
      /\ \A i \in DOMAIN driven' :
            Behind(driven'[i], s.run) /\ Position(driven'[i].stage) \in 1..(Done(s) + 1)
      /\ Grow(driven')
  <2>1. s.run.current \in StageNames /\ s.run.attempts \in Nat
    BY <1>5, RunningState, Zenon
  <2>2. PICK d \in Ask : d = [stage |-> s.run.current, attempt |-> s.run.attempts]
    BY <2>1, Zenon DEF Ask
  <2>3. d.stage = s.run.current /\ d.attempt = s.run.attempts
    BY <2>2
  <2>4. driven' = Append(driven, d)
    BY <1>1, <1>4, <2>2, Zenon
  <2>5. driven \in Seq(Ask)
    BY <1>3 DEF Types
  <2>6. Grow(driven)
    BY Zenon DEF SaltInv, AttemptsGrow, Grow
  <2> QED
    BY <1>5, <2>3, <2>4, <2>5, <2>6, DriveOrder, Zenon
<1>9. /\ failures' \in 0..MaxFailures
      /\ \E t \in State, then \in {"ready", "drop"} :
            /\ mem' = [mem EXCEPT ![p] = t] /\ pc' = [pc EXCEPT ![p] = Persist(then)]
            /\ Legal(t) /\ t.exists = s.exists
            /\ \/ /\ t.run.receipts = s.run.receipts /\ t.run.attempts = s.run.attempts
               \/ \E done \in Receipt : t.run.receipts = Append(s.run.receipts, done)
  BY <1>4, <1>5, DriveAnswer, Zenon
<1>10. PICK t \in State, then \in {"ready", "drop"} :
            /\ mem' = [mem EXCEPT ![p] = t] /\ pc' = [pc EXCEPT ![p] = Persist(then)]
            /\ Legal(t) /\ t.exists = s.exists
            /\ \/ /\ t.run.receipts = s.run.receipts /\ t.run.attempts = s.run.attempts
               \/ \E done \in Receipt : t.run.receipts = Append(s.run.receipts, done)
  BY <1>9, Zenon
<1>11. Images' = Images /\ Stored' = Stored
  BY <1>1, Zenon DEF Images, Stored
<1>12. Follows(s)'
  <2>1. Keeps(s.run, acked')
    BY <1>1, <1>5, Zenon DEF Follows
  <2> QED
    BY <1>5, <1>8, <2>1, Zenon DEF Follows
<1>13. Follows(t)'
  <2>1. \A i \in DOMAIN driven' : Behind(driven'[i], t.run) /\ Keeps(t.run, s.run.receipts)
    BY <1>8, <1>10, AnswerFollows, Zenon
  <2> QED
    BY <1>1, <1>5, <1>8, <1>10, <2>1, Zenon DEF Follows
<1>14. OnDisk'
  BY <1>5, <1>6, <1>11, <1>12 DEF OnDisk
<1>15. FinalAlone'
  BY <1>11, Zenon DEF SaltInv, FinalAlone
<1>16. DrivenInOrder'
  <2>1. Done(s) = Len(acked') /\ Done(s) \in Nat
    BY <1>1, <1>5 DEF Done, State, Run
  <2> QED
    BY <1>8, <2>1 DEF DrivenInOrder
<1>17. AttemptsGrow'
  BY <1>8, Zenon DEF AttemptsGrow, Grow
<1>18. PICK place : place = Persist(then)
  OBVIOUS
<1>19. /\ place \in [at : {"out", "ready", "drive", "rename", "sync"},
                     then : {"none", "ready", "drive", "drop"}]
       /\ place.at = "rename" /\ place.then = then /\ then # "none" /\ then # "drive"
  BY <1>18, Places
<1>20. pc' = [pc EXCEPT ![p] = place] /\ pc'[p] = place /\ mem'[p] = t
  BY <1>3, <1>10, <1>18 DEF Types
<1>21. Inside(p)'
  <2>1. ~Claimed(p)'
    BY <1>19, <1>20 DEF Claimed
  <2>2. Follows(mem[p])'
    BY <1>13, <1>20, Zenon
  <2>3. ~Final(Stored)'
    BY <1>7, <1>11, Zenon DEF Final
  <2>4. mem'[p].exists
    BY <1>6, <1>10, <1>20, Zenon
  <2> QED
    BY <1>19, <1>20, <2>1, <2>2, <2>3, <2>4 DEF Inside
<1>22. /\ Locked' /\ InMemory'
       /\ lock' \in Procs \cup {Nobody}
       /\ pc' \in [Procs -> [at : {"out", "ready", "drive", "rename", "sync"},
                             then : {"none", "ready", "drive", "drop"}]]
       /\ mem' \in [Procs -> State]
  <2>1. lock' = p /\ mem' = [mem EXCEPT ![p] = t]
    BY <1>1, <1>2, <1>10
  <2> QED
    BY <1>2, <1>19, <1>20, <1>21, <2>1, Moves, Zenon
<1>23. Types'
  BY <1>1, <1>3, <1>8, <1>9, <1>22, Zenon DEF Types
<1> QED
  BY <1>14, <1>15, <1>16, <1>17, <1>22, <1>23, Zenon DEF SaltInv

\* A killed process, or one whose write failed, leaves the disk as it is.
LEMMA DiesStep ==
    ASSUME SaltInv, NEW p \in Procs, Dies(p)
    PROVE  SaltInv'
<1>1. /\ dir' = dir /\ acked' = acked /\ driven' = driven /\ failures' = failures
      /\ pc[p].at # "out" /\ Drop(p) /\ faults' = faults + 1 /\ faults < MaxFaults
  BY DEF Dies
<1>2. OnDisk' /\ FinalAlone' /\ DrivenInOrder' /\ AttemptsGrow'
  BY <1>1, SameDisk, Zenon
<1>3. /\ Locked' /\ InMemory'
      /\ lock' \in Procs \cup {Nobody}
      /\ pc' \in [Procs -> [at : {"out", "ready", "drive", "rename", "sync"},
                            then : {"none", "ready", "drive", "drop"}]]
      /\ mem' \in [Procs -> State]
  BY <1>1, Dropped, Zenon
<1>4. Types
  BY DEF SaltInv
<1>5. faults' \in 0..MaxFaults
  BY <1>1, <1>4, SaltAssumption DEF Types
<1>6. Types'
  BY <1>1, <1>3, <1>4, <1>5, Zenon DEF Types
<1> QED
  BY <1>2, <1>3, <1>6, Zenon DEF SaltInv

\* After a power loss any one of the states that may survive is on disk.
LEMMA PowerLossStep ==
    ASSUME SaltInv, PowerLoss
    PROVE  SaltInv'
<1>1. /\ dir' \in Outcomes(dir) /\ acked' = acked /\ driven' = driven /\ failures' = failures
      /\ faults' = faults + 1 /\ faults < MaxFaults
      /\ lock' = Nobody /\ pc' = [p \in Procs |-> At("out")] /\ mem' = [p \in Procs |-> NoState]
  BY DEF PowerLoss
<1>2. Types
  BY DEF SaltInv
<1>3. PICK image \in dir.crash : dir' = Settled(image)
  BY <1>1, Zenon DEF Outcomes
<1>4. /\ Images' = {Stored'} /\ Stored' \in Images
      /\ dir' \in [live : [{"state"} -> State], crash : SUBSET [{"state"} -> State]]
      /\ dir'.live \in dir'.crash
  BY <1>2, <1>3, SettledImages, Zenon
<1>5. \A s : Follows(s)' <=> Follows(s)
  BY <1>1, Zenon DEF Follows
<1>6. OnDisk'
  BY <1>4, <1>5 DEF SaltInv, OnDisk
<1>7. FinalAlone'
  BY <1>4, Zenon DEF FinalAlone
<1>8. DrivenInOrder' /\ AttemptsGrow'
  BY <1>1, Zenon DEF SaltInv, DrivenInOrder, AttemptsGrow
<1>9. Locked' /\ InMemory'
  BY <1>1 DEF Locked, InMemory, At
<1>10. /\ lock' \in Procs \cup {Nobody}
       /\ pc' \in [Procs -> [at : {"out", "ready", "drive", "rename", "sync"},
                             then : {"none", "ready", "drive", "drop"}]]
       /\ mem' \in [Procs -> State]
  <2>1. NoState \in State
    BY NewLegal, Zenon
  <2> QED
    BY <1>1, <2>1 DEF At
<1>11. faults' \in 0..MaxFaults
  BY <1>1, <1>2, SaltAssumption DEF Types
<1>12. Types'
  BY <1>1, <1>2, <1>4, <1>10, <1>11, Zenon DEF Types
<1> QED
  BY <1>6, <1>7, <1>8, <1>9, <1>12, Zenon DEF SaltInv

LEMMA SaltStep == SaltInv /\ [Next]_vars => SaltInv'
<1> SUFFICES ASSUME SaltInv, [Next]_vars PROVE SaltInv'
  OBVIOUS
<1>1. ASSUME NEW p \in Procs, ProcStep(p)  PROVE SaltInv'
  BY <1>1, StartStep, AdvanceStep, DriveStep, RenameStep, SyncStep, Zenon DEF ProcStep
<1>2. ASSUME NEW p \in Procs, Dies(p)  PROVE SaltInv'
  BY <1>2, DiesStep, Zenon
<1>3. CASE PowerLoss
  BY <1>3, PowerLossStep, Zenon
<1>4. CASE UNCHANGED vars
  <2>1. /\ dir' = dir /\ lock' = lock /\ pc' = pc /\ mem' = mem /\ acked' = acked
        /\ driven' = driven /\ faults' = faults /\ failures' = failures
    BY <1>4 DEF vars
  <2>2. OnDisk' /\ FinalAlone' /\ DrivenInOrder' /\ AttemptsGrow' /\ Images' = Images
        /\ Stored' = Stored
    BY <2>1, SameDisk, Zenon
  <2>3. Types' /\ Locked'
    BY <2>1, Zenon DEF SaltInv, Types, Locked
  <2>4. \A s : Follows(s)' <=> Follows(s)
    BY <2>1, Zenon DEF Follows
  <2>5. InMemory'
    BY <2>1, <2>2, <2>4, Zenon DEF SaltInv, InMemory, Inside, Claimed
  <2> QED
    BY <2>2, <2>3, <2>5, Zenon DEF SaltInv
<1> QED
  BY <1>1, <1>2, <1>3, <1>4, Zenon DEF Next

----------------------------------------------------------------------------
(***************************************************************************)
(* The theorems.                                                           *)
(***************************************************************************)

(***************************************************************************)
(* The inductive invariant: the states in memory, on disk and possibly on  *)
(* disk after a power loss are Legal, keep the acknowledged stages and     *)
(* follow every attempt that the driver of reconcile was asked for.        *)
(***************************************************************************)
THEOREM SaltInvariant == Spec => []SaltInv
BY SaltInit, SaltStep, PTL DEF Spec

(***************************************************************************)
(* The variables have their types, only the owner of the work lock is      *)
(* inside reconcile, and the run it is about to persist is one to_bytes    *)
(* accepts.                                                                *)
(***************************************************************************)
THEOREM SaltTypeOK == Spec => []TypeOK
<1>1. SaltInv => TypeOK
  <2> SUFFICES ASSUME SaltInv PROVE TypeOK
    OBVIOUS
  <2>1. /\ lock \in Procs \cup {Nobody}
        /\ faults \in 0..MaxFaults /\ failures \in 0..MaxFailures
        /\ \A p \in Procs : /\ pc[p].at \in {"out", "ready", "drive", "rename", "sync"}
                            /\ pc[p].then \in {"none", "ready", "drive", "drop"}
    BY DEF SaltInv, Types
  <2>2. \A p \in Procs : pc[p].at # "out" => lock = p /\ ValidRun(mem[p].run)
    BY Zenon DEF SaltInv, Locked, InMemory, Inside, Follows, Legal
  <2> QED
    BY <2>1, <2>2, Zenon DEF TypeOK
<1> QED
  BY <1>1, SaltInvariant, PTL

(***************************************************************************)
(* Whatever state file a crash leaves passes validate_loaded_state, unless *)
(* it records an output whose own identity was malformed.                  *)
(***************************************************************************)
THEOREM SaltCheckpointLoads == Spec => []CheckpointLoads
<1>1. SaltInv => CheckpointLoads
  <2> SUFFICES ASSUME SaltInv, NEW s \in Images
               PROVE  validate_loaded_state(s) \/ \E i \in DOMAIN s.stages : s.stages[i].id = 0
    BY Zenon DEF CheckpointLoads
  <2>1. s \in State /\ Legal(s)
    BY StoredImage, Zenon DEF SaltInv, OnDisk, Follows
  <2> QED
    BY <2>1, LegalLoads, Zenon
<1> QED
  BY <1>1, SaltInvariant, PTL

(***************************************************************************)
(* A stage whose completion persist acknowledged stays completed with the  *)
(* same output, whatever is killed and whenever power is lost.             *)
(***************************************************************************)
THEOREM SaltAckedKept == Spec => []AckedKept
<1>1. SaltInv => AckedKept
  BY Zenon DEF SaltInv, OnDisk, Follows, Keeps, AckedKept
<1> QED
  BY <1>1, SaltInvariant, PTL

(***************************************************************************)
(* The driver is never asked for an attempt twice, nor out of the order of *)
(* the stages, across any number of crashes and restarts.                  *)
(***************************************************************************)
THEOREM SaltAttemptsGrow == Spec => []AttemptsGrow
<1>1. SaltInv => AttemptsGrow
  BY DEF SaltInv
<1> QED
  BY <1>1, SaltInvariant, PTL

(***************************************************************************)
(* Once publish was driven, every state that may survive holds an accepted *)
(* pack and a passed verdict on that package, and nothing else is          *)
(* published: the checks of validate_output on the publish stage suffice.  *)
(***************************************************************************)
THEOREM SaltPublishAuthorized == Spec => []PublishAuthorized
<1>1. SaltInv => PublishAuthorized
  <2> SUFFICES ASSUME SaltInv, NEW s \in Images
               PROVE  /\ (\E i \in DOMAIN driven : driven[i].stage = "publish") =>
                            Packed(s) # 0 /\ s.quality = [package |-> Packed(s), passed |-> TRUE]
                      /\ s.published \in {0, Packed(s)}
    BY Zenon DEF PublishAuthorized
  <2>1. s \in State /\ Follows(s) /\ Legal(s) /\ ValidRun(s.run) /\ Records(s) /\ EvidenceFits(s)
    BY StoredImage, Zenon DEF SaltInv, OnDisk, Follows, Legal
  <2>2. Packed(s) = PackId(s) /\ Done(s) \in 0..8
    BY <2>1, PackedAt, RunPlace
  <2>3. s.published \in {0, Packed(s)}
    BY <2>1, <2>2 DEF EvidenceFits
  <2>4. ASSUME NEW i \in DOMAIN driven, driven[i].stage = "publish"
        PROVE  Packed(s) # 0 /\ s.quality = [package |-> Packed(s), passed |-> TRUE]
    <3>1. Position("publish") = 8
      BY Positions, StageList
    <3>2. Len(acked) \in Nat /\ 8 <= Len(acked) + 1
      BY <2>4, <3>1 DEF SaltInv, DrivenInOrder, Types
    <3>3. Done(s) >= 7
      <4>1. Len(acked) <= Done(s)
        BY <2>1 DEF Follows, Keeps, Done
      <4> QED
        BY <2>2, <3>2, <4>1
    <3>4. PackId(s) # 0
      <4>1. Done(s) >= 6 /\ 6 \in 1..Done(s)
        BY <2>2, <3>3
      <4> QED
        BY <2>1, <4>1, Zenon DEF PackId, Records
    <3>5. s.quality.package = PackId(s) /\ s.quality.passed
      BY <2>1, <3>3 DEF EvidenceFits
    <3>6. s.quality = [package |-> s.quality.package, passed |-> s.quality.passed]
          /\ s.quality.passed \in BOOLEAN
      BY <2>1 DEF State
    <3> QED
      BY <2>2, <3>4, <3>5, <3>6
  <2> QED
    BY <2>3, <2>4, Zenon
<1> QED
  BY <1>1, SaltInvariant, PTL

(***************************************************************************)
(* No step of reconcile, and no crash, changes a settled outcome: advance  *)
(* claims nothing once the run succeeded or failed for good.               *)
(***************************************************************************)
THEOREM SaltSettles == Spec => Settles
<1>1. SaltInv /\ [Next]_vars =>
         [(\A s \in Images : s.run.status \in {"succeeded", "terminal"}) => Stored' = Stored]_vars
  <2> SUFFICES ASSUME SaltInv, Next, \A s \in Images : Final(s)
               PROVE  Stored' = Stored
    BY Zenon DEF Final
  <2>1. Types /\ Stored \in Images /\ Final(Stored) /\ Images = {Stored}
    BY StoredImage, Zenon DEF SaltInv, FinalAlone
  <2>2. ASSUME dir' = dir  PROVE Stored' = Stored
    BY <2>2 DEF Stored
  <2>3. ASSUME NEW p \in Procs, RenameState(p)  PROVE FALSE
    <3>1. pc[p].at = "rename" /\ pc[p].at # "out"
      BY <2>3 DEF RenameState
    <3> QED
      BY <2>1, <3>1, Zenon DEF SaltInv, InMemory, Inside
  <2>4. ASSUME NEW p \in Procs, SyncState(p)  PROVE Stored' = Stored
    <3>1. dir' = Settled(dir.live) /\ dir.live \in dir.crash
      BY <2>1, <2>4 DEF SyncState, Synced, Types
    <3> QED
      BY <2>1, <3>1, SettledImages DEF Stored
  <2>5. CASE PowerLoss
    <3>1. PICK image \in dir.crash : dir' = Settled(image)
      BY <2>5, Zenon DEF PowerLoss, Outcomes
    <3>2. Stored' \in Images
      BY <2>1, <3>1, SettledImages, Zenon
    <3> QED
      BY <2>1, <3>2
  <2>6. ASSUME NEW p \in Procs, Start(p) \/ Advance(p) \/ Drive(p) \/ Dies(p)  PROVE dir' = dir
    BY <2>6, Zenon DEF Start, Advance, Drive, Dies
  <2> QED
    BY <2>2, <2>3, <2>4, <2>5, <2>6, Zenon DEF Next, ProcStep
<1>2. Spec => [][Next]_vars
  BY PTL DEF Spec
<1>3. Spec => [][(\A s \in Images : s.run.status \in {"succeeded", "terminal"}) =>
                    Stored' = Stored]_vars
  BY <1>1, <1>2, SaltInvariant, PTL
<1> QED
  BY <1>3 DEF Settles

=============================================================================
