--------------------------- MODULE CampaignProofs ---------------------------
(***************************************************************************)
(* The checkpoint directory, for every number of savers, shards and steps: *)
(* with one save at a time, no crash and no power loss leaves a torn       *)
(* checkpoint, and a save that returned Ok is not lost.  Then the campaign *)
(* for every configuration: its runs use the directory as Dcp assumes, so  *)
(* its checkpoints are never torn, and no committed training is redone.    *)
(***************************************************************************)
EXTENDS Campaign, TLAPS

Image == [Name -> Seq(Runs)]
Phase == {"idle", "shard", "shardSync", "manifest", "manifestSync"}

Types ==
    /\ ckpt \in [live : Image, crash : SUBSET Image]
    /\ save \in [Savers -> [phase : Phase, state : Seq(Runs), rank : Nat]]
    /\ acked \in Seq(Runs)

\* The live image is one of the crash images, and none is ahead of it.
LiveLeads ==
    /\ ckpt.live \in ckpt.crash
    /\ \A image \in ckpt.crash :
          /\ Committed(image) <= Committed(ckpt.live)
          /\ Committed(image) \in 0..LastStep

AllIntact == \A image \in ckpt.crash : Intact(image)

AckedOnDisk == \A image \in ckpt.crash : Committed(image) >= Len(acked)

\* Shard r of a save is on disk.
Written(c, r) == \A image \in ckpt.crash : image[Shard(Len(c), r)] = c

\* How far a save in progress has come.
SaveInv(p) ==
    LET c == save[p].state
        k == save[p].rank
        phase == save[p].phase
    IN
    phase # "idle" =>
        /\ Len(c) \in Step
        /\ k \in Rank
        /\ \A r \in Rank : r < k => Written(c, r)
        /\ phase \in {"shard", "shardSync", "manifest"} => Committed(ckpt.live) < Len(c)
        /\ phase = "shardSync" => ckpt.live[Shard(Len(c), k)] = c
        /\ phase \in {"manifest", "manifestSync"} => k = World /\ Written(c, k)
        /\ phase = "manifestSync" => ckpt.live[Manifest] = c

OneSave ==
    \A p, q \in Savers :
        save[p].phase # "idle" /\ save[q].phase # "idle" => p = q

Inv ==
    /\ Types /\ LiveLeads /\ AllIntact /\ AckedOnDisk /\ OneSave
    /\ \A p \in Savers : SaveInv(p)

----------------------------------------------------------------------------

\* The file names are distinct.
LEMMA Names ==
    ASSUME NEW s \in Step, NEW r \in Rank
    PROVE  /\ Shard(s, r) \in Name
           /\ Manifest \in Name
           /\ Shard(s, r) # Manifest
           /\ \A t \in Step, q \in Rank : Shard(s, r) = Shard(t, q) => s = t /\ r = q
  BY DcpAssumption DEF Shard, Manifest, Name, Step, Rank

\* A trainer state is a sequence of runs whose length is its step.
LEMMA StateFacts ==
    ASSUME NEW c \in State
    PROVE  c \in Seq(Runs) /\ Len(c) \in Step
<1>1. PICK s \in Step : c \in [1..s -> Runs]
  BY DEF State
<1>2. s \in Nat
  BY <1>1, DcpAssumption DEF Step
<1> QED
  BY <1>1, <1>2

\* What a rename does to the live image and to every crash image.
LEMMA RenameFacts ==
    ASSUME NEW dir \in [live : Image, crash : SUBSET Image], dir.live \in dir.crash,
           NEW n \in Name, NEW c \in Seq(Runs), NEW new, new = Rename(dir, n, c)
    PROVE  /\ new \in [live : Image, crash : SUBSET Image]
           /\ new.live \in new.crash
           /\ new.live[n] = c
           /\ \A m \in Name : m # n => new.live[m] = dir.live[m]
           /\ \A image \in new.crash :
                 \/ image \in dir.crash
                 \/ /\ image[n] = c
                    /\ \E old \in dir.crash : \A m \in Name : m # n => image[m] = old[m]
<1>1. /\ new.live = [dir.live EXCEPT ![n] = c]
      /\ new.crash = dir.crash \cup {[image EXCEPT ![n] = c] : image \in dir.crash}
      /\ new = [live |-> new.live, crash |-> new.crash]
  BY DEF Rename
<1>2. \A image \in dir.crash : [image EXCEPT ![n] = c] \in Image
  BY DEF Image
<1>3. dir.live \in Image /\ new.live \in Image
  BY <1>1 DEF Image
<1>4. new.crash \in SUBSET Image
  BY <1>1, <1>2
<1>5. new \in [live : Image, crash : SUBSET Image]
  BY <1>1, <1>3, <1>4
<1>6. new.live \in new.crash
  BY <1>1
<1>7. new.live[n] = c /\ \A m \in Name : m # n => new.live[m] = dir.live[m]
  BY <1>1, <1>3 DEF Image
<1>8. ASSUME NEW image \in new.crash
      PROVE  \/ image \in dir.crash
             \/ /\ image[n] = c
                /\ \E old \in dir.crash : \A m \in Name : m # n => image[m] = old[m]
  <2>1. CASE image \in dir.crash
    BY <2>1
  <2>2. CASE image \notin dir.crash
    <3>1. PICK old \in dir.crash : image = [old EXCEPT ![n] = c]
      BY <2>2, <1>1
    <3>2. old \in Image
      BY <3>1
    <3> QED
      BY <3>1, <3>2 DEF Image
  <2> QED
    BY <2>1, <2>2
<1> QED
  BY <1>5, <1>6, <1>7, <1>8

\* After a directory fsync the live image is the only crash image.
LEMMA SyncedFacts ==
    ASSUME NEW dir \in [live : Image, crash : SUBSET Image], NEW new, new = Synced(dir)
    PROVE  /\ new \in [live : Image, crash : SUBSET Image]
           /\ new.live = dir.live
           /\ new.crash = {dir.live}
  BY DEF Synced, Settled

----------------------------------------------------------------------------

LEMMA InitInv == DcpInit => Inv
<1> SUFFICES ASSUME DcpInit PROVE Inv
  OBVIOUS
<1> DEFINE none == [n \in Name |-> Absent]
<1>1. none \in Image
  BY DEF Image, Absent
<1>2. ckpt = [live |-> none, crash |-> {none}]
  BY DEF DcpInit, Settled
<1>3. Types
  BY <1>1, <1>2 DEF DcpInit, Types, NotSaving, Phase, Absent
<1>4. Committed(none) = 0
  BY DEF Committed, Absent, Manifest, Name
<1>5. LiveLeads /\ AllIntact
  BY <1>2, <1>4, DcpAssumption DEF LiveLeads, AllIntact, Intact
<1>6. AckedOnDisk
  BY <1>2, <1>4 DEF AckedOnDisk, DcpInit, Absent
<1>7. OneSave /\ \A p \in Savers : SaveInv(p)
  BY DEF DcpInit, OneSave, SaveInv, NotSaving
<1> QED
  BY <1>3, <1>5, <1>6, <1>7 DEF Inv

\* A directory fsync, by whatever writes in the directory, disturbs nothing.
LEMMA SyncedInv ==
    ASSUME Inv, ckpt' = Synced(ckpt)
    PROVE  /\ ckpt' \in [live : Image, crash : SUBSET Image]
           /\ ckpt'.live = ckpt.live
           /\ ckpt'.crash = {ckpt.live}
           /\ LiveLeads' /\ AllIntact'
           /\ \A c, r : Written(c, r) => Written(c, r)'
<1>1. /\ ckpt' \in [live : Image, crash : SUBSET Image]
      /\ ckpt'.live = ckpt.live
      /\ ckpt'.crash = {ckpt.live}
  BY SyncedFacts DEF Inv, Types
<1>2. ckpt.live \in ckpt.crash
  BY DEF Inv, LiveLeads
<1>3. LiveLeads'
  BY <1>1, <1>2 DEF Inv, LiveLeads, Committed
<1>4. AllIntact'
  BY <1>1, <1>2 DEF Inv, AllIntact, Intact, Committed
<1>5. \A c, r : Written(c, r) => Written(c, r)'
  BY <1>1, <1>2 DEF Written
<1> QED
  BY <1>1, <1>3, <1>4, <1>5

\* save_from begins: nothing is written yet.
LEMMA SaveFromInv ==
    ASSUME Inv, NEW p \in Savers, NEW c \in State, SaveFrom(p, c),
           \A q \in Savers : save[q] = NotSaving
    PROVE  Inv'
<1>1. c \in Seq(Runs) /\ Len(c) \in Step
  BY StateFacts
<1>2. UNCHANGED <<ckpt, acked>>
  BY DEF SaveFrom
<1>3. save' = [save EXCEPT ![p] = [phase |-> "shard", state |-> c, rank |-> 1]]
  BY DEF SaveFrom
<1>4. Types'
  BY <1>1, <1>2, <1>3 DEF Inv, Types, Phase
<1>5. /\ save'[p] = [phase |-> "shard", state |-> c, rank |-> 1]
      /\ \A q \in Savers : q # p => save'[q].phase = "idle"
  BY <1>3 DEF Inv, Types, NotSaving
<1>6. OneSave'
  BY <1>5 DEF OneSave
<1>7. SaveInv(p)'
  BY <1>1, <1>2, <1>5, DcpAssumption DEF SaveInv, SaveFrom, MayAdvance, Rank
<1>8. \A q \in Savers : SaveInv(q)'
  BY <1>5, <1>7 DEF SaveInv
<1>9. LiveLeads' /\ AllIntact' /\ AckedOnDisk'
  BY <1>2 DEF Inv, LiveLeads, AllIntact, AckedOnDisk, Committed, Intact
<1> QED
  BY <1>4, <1>6, <1>8, <1>9 DEF Inv

\* A shard is renamed: it belongs to a step no manifest names yet.
LEMMA RenameShardInv ==
    ASSUME Inv, NEW p \in Savers, RenameShard(p)
    PROVE  Inv'
<1>0. PICK c, k : c = save[p].state /\ k = save[p].rank
  OBVIOUS
<1> DEFINE n == Shard(Len(c), k)
<1>1. /\ save[p].phase = "shard"
      /\ ckpt' = Rename(ckpt, n, c)
      /\ save' = [save EXCEPT ![p].phase = "shardSync"]
      /\ acked' = acked
  BY <1>0 DEF RenameShard
<1>2. /\ c \in Seq(Runs) /\ k \in Rank /\ Len(c) \in Step
      /\ Committed(ckpt.live) < Len(c)
      /\ \A r \in Rank : r < k => Written(c, r)
  BY <1>0, <1>1 DEF Inv, Types, SaveInv
<1>3. /\ n \in Name /\ n # Manifest /\ Manifest \in Name
      /\ \A t \in Step, q \in Rank : Shard(t, q) \in Name
      /\ \A t \in Step, q \in Rank : n = Shard(t, q) => t = Len(c) /\ q = k
  BY <1>2, Names
<1>4. ckpt \in [live : Image, crash : SUBSET Image] /\ ckpt.live \in ckpt.crash
  BY DEF Inv, Types, LiveLeads
<1>5. /\ ckpt' \in [live : Image, crash : SUBSET Image]
      /\ ckpt'.live \in ckpt'.crash
      /\ ckpt'.live[n] = c
      /\ \A m \in Name : m # n => ckpt'.live[m] = ckpt.live[m]
      /\ \A image \in ckpt'.crash :
            \/ image \in ckpt.crash
            \/ /\ image[n] = c
               /\ \E old \in ckpt.crash : \A m \in Name : m # n => image[m] = old[m]
  BY <1>1, <1>2, <1>3, <1>4, RenameFacts
<1>6. ASSUME NEW image \in ckpt'.crash
      PROVE  \E old \in ckpt.crash : \A m \in Name : m # n => image[m] = old[m]
  BY <1>5
<1>7. Committed(ckpt.live) \in 0..LastStep /\ Committed(ckpt'.live) = Committed(ckpt.live)
  BY <1>3, <1>4, <1>5 DEF Committed, Inv, LiveLeads
<1>8. LiveLeads' /\ AckedOnDisk'
  BY <1>1, <1>3, <1>5, <1>6, <1>7 DEF Inv, LiveLeads, AckedOnDisk, Committed
<1>9. AllIntact'
  <2> SUFFICES ASSUME NEW image \in ckpt'.crash, Committed(image) > 0, NEW r \in Rank
               PROVE  image[Shard(Committed(image), r)] = image[Manifest]
    BY DEF AllIntact, Intact, Committed
  <2>1. PICK old \in ckpt.crash : \A m \in Name : m # n => image[m] = old[m]
    BY <1>6
  <2>2. Committed(image) = Committed(old) /\ image[Manifest] = old[Manifest]
    BY <2>1, <1>3 DEF Committed
  <2>3. Committed(old) <= Committed(ckpt.live) /\ Committed(old) \in 0..LastStep
    BY DEF Inv, LiveLeads
  <2>4. Committed(old) \in Step /\ Committed(old) # Len(c)
    BY <2>2, <2>3, <1>2, <1>7, DcpAssumption DEF Step
  <2>5. Shard(Committed(old), r) # n /\ Shard(Committed(old), r) \in Name
    BY <2>4, <1>3
  <2>6. old[Shard(Committed(old), r)] = old[Manifest]
    BY <2>2 DEF Inv, AllIntact, Intact
  <2> QED
    BY <2>1, <2>2, <2>5, <2>6
<1>10. Types'
  BY <1>1, <1>5 DEF Inv, Types, Phase
<1>11. /\ save'[p] = [save[p] EXCEPT !.phase = "shardSync"]
       /\ save'[p].phase = "shardSync" /\ save'[p].state = c /\ save'[p].rank = k
       /\ \A q \in Savers : q # p => save'[q] = save[q]
  BY <1>0, <1>1 DEF Inv, Types
<1>12. \A q \in Savers : q # p => save[q].phase = "idle"
  BY <1>1 DEF Inv, OneSave
<1>13. OneSave'
  BY <1>11, <1>12 DEF OneSave
<1>14. ASSUME NEW r \in Rank, r < k
       PROVE  Written(c, r)'
  <2>1. Shard(Len(c), r) # n /\ Shard(Len(c), r) \in Name
    BY <1>14, <1>2, <1>3 DEF Rank
  <2> QED
    BY <2>1, <1>2, <1>6, <1>14 DEF Written
<1>15. SaveInv(p)'
  BY <1>2, <1>5, <1>7, <1>11, <1>14 DEF SaveInv
<1>16. \A q \in Savers : SaveInv(q)'
  BY <1>11, <1>12, <1>15 DEF SaveInv
<1> QED
  BY <1>8, <1>9, <1>10, <1>13, <1>16 DEF Inv

\* The directory fsync after a shard: the save is one shard further.
LEMMA SyncShardInv ==
    ASSUME Inv, NEW p \in Savers, SyncShard(p)
    PROVE  Inv'
<1>0. PICK c, k : c = save[p].state /\ k = save[p].rank
  OBVIOUS
<1>1. /\ save[p].phase = "shardSync"
      /\ ckpt' = Synced(ckpt)
      /\ save' = [save EXCEPT ![p] = AfterShard(save[p])]
      /\ acked' = acked
  BY <1>0 DEF SyncShard, Inv, Types
<1>2. /\ c \in Seq(Runs) /\ k \in Rank /\ Len(c) \in Step
      /\ Committed(ckpt.live) < Len(c)
      /\ ckpt.live[Shard(Len(c), k)] = c
      /\ \A r \in Rank : r < k => Written(c, r)
  BY <1>0, <1>1 DEF Inv, Types, SaveInv
<1>3. /\ ckpt' \in [live : Image, crash : SUBSET Image]
      /\ ckpt'.live = ckpt.live
      /\ ckpt'.crash = {ckpt.live}
      /\ LiveLeads' /\ AllIntact'
      /\ \A d, r : Written(d, r) => Written(d, r)'
  BY <1>1, SyncedInv
<1>4. AckedOnDisk'
  BY <1>1, <1>3 DEF Inv, LiveLeads, AckedOnDisk, Committed
<1>5. Written(c, k)'
  BY <1>2, <1>3 DEF Written
<1>6. /\ save'[p] = AfterShard(save[p])
      /\ \A q \in Savers : q # p => save'[q] = save[q]
  BY <1>1 DEF Inv, Types
<1>7. /\ save'[p] \in [phase : Phase, state : Seq(Runs), rank : Nat]
      /\ save'[p].state = c
      /\ \/ k < World /\ save'[p].phase = "shard" /\ save'[p].rank = k + 1
         \/ k = World /\ save'[p].phase = "manifest" /\ save'[p].rank = k
  <2>1. k \in Nat /\ World \in Nat /\ k <= World
    BY <1>2, DcpAssumption DEF Rank
  <2>2. CASE k < World
    BY <2>1, <2>2, <1>0, <1>2, <1>6 DEF AfterShard, Phase
  <2>3. CASE k = World
    <3>1. ~(k < World)
      BY <2>1, <2>3
    <3>2. save'[p] = [phase |-> "manifest", state |-> c, rank |-> k]
      BY <3>1, <1>0, <1>6 DEF AfterShard
    <3> QED
      BY <3>2, <2>1, <2>3, <1>2 DEF Phase
  <2> QED
    BY <2>1, <2>2, <2>3
<1>8. Types'
  BY <1>1, <1>3, <1>6, <1>7 DEF Inv, Types
<1>9. \A q \in Savers : q # p => save[q].phase = "idle"
  BY <1>1 DEF Inv, OneSave
<1>10. OneSave'
  BY <1>6, <1>9 DEF OneSave
<1>11. SaveInv(p)'
  <2>1. ASSUME NEW r \in Rank, r < k + 1
        PROVE  Written(c, r)'
    BY <2>1, <1>2, <1>3, <1>5 DEF Rank
  <2>2. Committed(ckpt'.live) < Len(c)
    BY <1>2, <1>3
  <2>3. CASE k < World /\ save'[p].phase = "shard" /\ save'[p].rank = k + 1
    BY <2>1, <2>2, <2>3, <1>2, <1>7, DcpAssumption DEF SaveInv, Rank
  <2>4. CASE k = World /\ save'[p].phase = "manifest" /\ save'[p].rank = k
    BY <2>2, <2>4, <1>2, <1>3, <1>5, <1>7 DEF SaveInv
  <2> QED
    BY <1>7, <2>3, <2>4
<1>12. \A q \in Savers : SaveInv(q)'
  BY <1>6, <1>9, <1>11 DEF SaveInv
<1> QED
  BY <1>3, <1>4, <1>8, <1>10, <1>12 DEF Inv

\* The manifest is renamed: every shard it names is already on disk.
LEMMA RenameManifestInv ==
    ASSUME Inv, NEW p \in Savers, RenameManifest(p)
    PROVE  Inv'
<1>0. PICK c, k : c = save[p].state /\ k = save[p].rank
  OBVIOUS
<1>1. /\ save[p].phase = "manifest"
      /\ ckpt' = Rename(ckpt, Manifest, c)
      /\ save' = [save EXCEPT ![p].phase = "manifestSync"]
      /\ acked' = acked
  BY <1>0 DEF RenameManifest
<1>2. /\ c \in Seq(Runs) /\ k \in Rank /\ Len(c) \in Step
      /\ Committed(ckpt.live) < Len(c)
      /\ k = World
      /\ \A r \in Rank : Written(c, r)
  <2>1. /\ c \in Seq(Runs) /\ k \in Rank /\ Len(c) \in Step
        /\ Committed(ckpt.live) < Len(c)
        /\ k = World /\ Written(c, k)
        /\ \A r \in Rank : r < k => Written(c, r)
    BY <1>0, <1>1 DEF Inv, Types, SaveInv
  <2> QED
    BY <2>1, DcpAssumption DEF Rank
<1>3. /\ Manifest \in Name
      /\ \A t \in Step, q \in Rank : Shard(t, q) \in Name /\ Shard(t, q) # Manifest
  BY <1>2, Names
<1>4. ckpt \in [live : Image, crash : SUBSET Image] /\ ckpt.live \in ckpt.crash
  BY DEF Inv, Types, LiveLeads
<1>5. /\ ckpt' \in [live : Image, crash : SUBSET Image]
      /\ ckpt'.live \in ckpt'.crash
      /\ ckpt'.live[Manifest] = c
      /\ \A m \in Name : m # Manifest => ckpt'.live[m] = ckpt.live[m]
      /\ \A image \in ckpt'.crash :
            \/ image \in ckpt.crash
            \/ /\ image[Manifest] = c
               /\ \E old \in ckpt.crash : \A m \in Name : m # Manifest => image[m] = old[m]
  BY <1>1, <1>2, <1>3, <1>4, RenameFacts
<1>6. ASSUME NEW r \in Rank
      PROVE  Written(c, r)'
  <2>1. Shard(Len(c), r) \in Name /\ Shard(Len(c), r) # Manifest
    BY <1>2, <1>3
  <2>2. \A image \in ckpt.crash : image[Shard(Len(c), r)] = c
    BY <1>2 DEF Written
  <2> QED
    BY <2>1, <2>2, <1>5 DEF Written
<1>7. /\ Committed(ckpt'.live) = Len(c)
      /\ Committed(ckpt.live) \in 0..LastStep
      /\ Len(c) \in 0..LastStep
  BY <1>2, <1>5, DcpAssumption DEF Committed, Inv, LiveLeads, Step
<1>8. ASSUME NEW image \in ckpt'.crash, image \notin ckpt.crash
      PROVE  Committed(image) = Len(c) /\ image[Manifest] = c
  BY <1>5, <1>8 DEF Committed
<1>9. LiveLeads'
  <2> SUFFICES ASSUME NEW image \in ckpt'.crash
               PROVE  Committed(image) <= Len(c) /\ Committed(image) \in 0..LastStep
    BY <1>5, <1>7 DEF LiveLeads, Committed
  <2>1. CASE image \in ckpt.crash
    BY <2>1, <1>2, <1>7 DEF Inv, LiveLeads
  <2>2. CASE image \notin ckpt.crash
    BY <2>2, <1>7, <1>8
  <2> QED
    BY <2>1, <2>2
<1>10. AckedOnDisk'
  <2>1. Len(acked) <= Committed(ckpt.live) /\ Len(acked) \in Nat
    BY <1>4 DEF Inv, AckedOnDisk, Types
  <2>2. \A image \in ckpt'.crash : Committed(image) >= Len(acked)
    BY <2>1, <1>2, <1>7, <1>8 DEF Inv, AckedOnDisk
  <2> QED
    BY <2>2, <1>1 DEF AckedOnDisk, Committed
<1>11. AllIntact'
  <2> SUFFICES ASSUME NEW image \in ckpt'.crash, Committed(image) > 0, NEW r \in Rank
               PROVE  image[Shard(Committed(image), r)] = image[Manifest]
    BY DEF AllIntact, Intact, Committed
  <2>1. CASE image \in ckpt.crash
    BY <2>1 DEF Inv, AllIntact, Intact
  <2>2. CASE image \notin ckpt.crash
    BY <2>2, <1>6, <1>8 DEF Written
  <2> QED
    BY <2>1, <2>2
<1>12. Types'
  <2>1. save' \in [Savers -> [phase : Phase, state : Seq(Runs), rank : Nat]]
    <3> DEFINE R == [phase : Phase, state : Seq(Runs), rank : Nat]
    <3>1. save \in [Savers -> R]
      BY DEF Inv, Types
    <3>2. [save[p] EXCEPT !.phase = "manifestSync"] \in R
      BY <3>1 DEF Phase
    <3> HIDE DEF R
    <3>3. save' \in [Savers -> R]
      BY <1>1, <3>1, <3>2
    <3> QED
      BY <3>3 DEF R
  <2>2. acked' \in Seq(Runs)
    BY <1>1 DEF Inv, Types
  <2>3. ckpt' \in [live : Image, crash : SUBSET Image]
    BY <1>5
  <2> QED
    BY <2>1, <2>2, <2>3 DEF Types
<1>13. /\ save'[p].phase = "manifestSync" /\ save'[p].state = c /\ save'[p].rank = k
       /\ \A q \in Savers : q # p => save'[q] = save[q]
  BY <1>0, <1>1 DEF Inv, Types
<1>14. \A q \in Savers : q # p => save[q].phase = "idle"
  BY <1>1 DEF Inv, OneSave
<1>15. OneSave'
  BY <1>13, <1>14 DEF OneSave
<1>16. SaveInv(p)'
  BY <1>2, <1>5, <1>6, <1>13 DEF SaveInv
<1>17. \A q \in Savers : SaveInv(q)'
  BY <1>13, <1>14, <1>16 DEF SaveInv
<1> QED
  BY <1>9, <1>10, <1>11, <1>12, <1>15, <1>17 DEF Inv

\* Nobody saves: nothing is said about a save in progress.
LEMMA IdleInv ==
    ASSUME \A q \in Savers : save'[q].phase = "idle"
    PROVE  OneSave' /\ \A q \in Savers : SaveInv(q)'
  BY DEF OneSave, SaveInv

\* The manifest is durable and save_from returns Ok.
LEMMA SyncManifestInv ==
    ASSUME Inv, NEW p \in Savers, SyncManifest(p)
    PROVE  Inv'
<1>0. PICK c : c = save[p].state
  OBVIOUS
<1>1. /\ save[p].phase = "manifestSync"
      /\ ckpt' = Synced(ckpt)
      /\ acked' = c
      /\ save' = [save EXCEPT ![p] = NotSaving]
  BY <1>0 DEF SyncManifest
<1>2. c \in Seq(Runs) /\ ckpt.live[Manifest] = c
  BY <1>0, <1>1 DEF Inv, Types, SaveInv
<1>3. /\ ckpt' \in [live : Image, crash : SUBSET Image]
      /\ ckpt'.live = ckpt.live
      /\ ckpt'.crash = {ckpt.live}
      /\ LiveLeads' /\ AllIntact'
  BY <1>1, SyncedInv
<1>4. Len(c) \in Nat
  BY <1>2
<1>5. AckedOnDisk'
  BY <1>1, <1>2, <1>3, <1>4 DEF AckedOnDisk, Committed
<1>6. \A q \in Savers : save'[q].phase = "idle"
  BY <1>1 DEF Inv, Types, OneSave, NotSaving
<1>7. Types'
  BY <1>1, <1>2, <1>3 DEF Inv, Types, NotSaving, Phase, Absent
<1> QED
  BY <1>3, <1>5, <1>6, <1>7, IdleInv DEF Inv

\* A save that stops leaves the directory as it is.
LEMMA SaveStopsInv ==
    ASSUME Inv, NEW p \in Savers, SaveStops(p)
    PROVE  Inv'
<1>1. save' = [save EXCEPT ![p] = NotSaving] /\ ckpt' = ckpt /\ acked' = acked
  BY DEF SaveStops
<1>2. Types'
  BY <1>1 DEF Inv, Types, NotSaving, Phase, Absent
<1>3. save'[p].phase = "idle" /\ \A q \in Savers : q # p => save'[q] = save[q]
  BY <1>1 DEF Inv, Types, NotSaving
<1>4. OneSave'
  BY <1>3 DEF Inv, OneSave
<1>5. \A q \in Savers : SaveInv(q)'
  BY <1>1, <1>3 DEF Inv, SaveInv, Written, Committed
<1>6. LiveLeads' /\ AllIntact' /\ AckedOnDisk'
  BY <1>1 DEF Inv, LiveLeads, AllIntact, AckedOnDisk, Committed, Intact
<1> QED
  BY <1>2, <1>4, <1>5, <1>6 DEF Inv

\* A directory fsync by another writer.
LEMMA SiblingSyncInv ==
    ASSUME Inv, SiblingSync
    PROVE  Inv'
<1>1. ckpt' = Synced(ckpt) /\ save' = save /\ acked' = acked
  BY DEF SiblingSync
<1>2. /\ ckpt' \in [live : Image, crash : SUBSET Image]
      /\ ckpt'.live = ckpt.live
      /\ ckpt'.crash = {ckpt.live}
      /\ LiveLeads' /\ AllIntact'
      /\ \A c, r : Written(c, r) => Written(c, r)'
  BY <1>1, SyncedInv
<1>3. Types' /\ OneSave'
  BY <1>1, <1>2 DEF Inv, Types, OneSave
<1>4. AckedOnDisk'
  BY <1>1, <1>2 DEF Inv, LiveLeads, AckedOnDisk, Committed
<1>5. ASSUME NEW q \in Savers
      PROVE  SaveInv(q)'
  <2>1. PICK c, k : c = save[q].state /\ k = save[q].rank
    OBVIOUS
  <2>2. c = save'[q].state /\ k = save'[q].rank /\ save'[q].phase = save[q].phase
    BY <2>1, <1>1
  <2>3. Committed(ckpt'.live) = Committed(ckpt.live)
    BY <1>2
  <2> QED
    BY <2>1, <2>2, <2>3, <1>2 DEF Inv, SaveInv
<1> QED
  BY <1>2, <1>3, <1>4, <1>5 DEF Inv

\* A power loss leaves one of the crash images, and nobody saves.
LEMMA PowerLossInv ==
    ASSUME Inv, DcpPowerLoss
    PROVE  Inv'
<1>1. PICK image \in ckpt.crash : ckpt' = [live |-> image, crash |-> {image}]
  BY DEF DcpPowerLoss, Outcomes, Settled
<1>2. save' = [q \in Savers |-> NotSaving] /\ acked' = acked
  BY DEF DcpPowerLoss
<1>3. image \in Image /\ ckpt'.live = image /\ ckpt'.crash = {image}
  BY <1>1 DEF Inv, Types
<1>4. Types'
  BY <1>1, <1>2, <1>3 DEF Inv, Types, NotSaving, Phase, Absent
<1>5. Committed(image) \in 0..LastStep /\ Intact(image) /\ Committed(image) >= Len(acked)
  BY <1>1 DEF Inv, LiveLeads, AllIntact, AckedOnDisk
<1>6. LiveLeads' /\ AllIntact' /\ AckedOnDisk'
  BY <1>2, <1>3, <1>5 DEF LiveLeads, AllIntact, AckedOnDisk, Committed, Intact
<1>7. \A q \in Savers : save'[q].phase = "idle"
  BY <1>2 DEF NotSaving
<1> QED
  BY <1>4, <1>6, <1>7, IdleInv DEF Inv

LEMMA NextInv == Inv /\ [DcpNext]_dcpVars => Inv'
<1> SUFFICES ASSUME Inv, [DcpNext]_dcpVars PROVE Inv'
  OBVIOUS
<1>1. ASSUME NEW p \in Savers,
             \/ /\ \A q \in Savers : save[q] = NotSaving
                /\ \E c \in State : SaveFrom(p, c)
             \/ RenameShard(p) \/ SyncShard(p) \/ RenameManifest(p) \/ SyncManifest(p)
             \/ SaveStops(p)
      PROVE  Inv'
  BY <1>1, SaveFromInv, RenameShardInv, SyncShardInv, RenameManifestInv, SyncManifestInv,
     SaveStopsInv
<1>2. CASE UNCHANGED dcpVars
  BY <1>2 DEF dcpVars, Inv, Types, LiveLeads, AllIntact, AckedOnDisk, OneSave, SaveInv,
              Written, Committed, Intact
<1> QED
  BY <1>1, <1>2, SiblingSyncInv, PowerLossInv DEF DcpNext

(***************************************************************************)
(* "Old or new, never torn" (dcp.rs): with one save at a time, whatever    *)
(* the number of shards, wherever saves stop and power is lost, the        *)
(* manifest names only complete shards of its own save, in the live        *)
(* directory and in every directory a power loss may leave.                *)
(***************************************************************************)
THEOREM DcpNeverTorn == DcpSpec => []NeverTorn
<1>1. Inv => NeverTorn
  BY DEF Inv, LiveLeads, AllIntact, NeverTorn
<1> QED
  BY <1>1, InitInv, NextInv, PTL DEF DcpSpec

(***************************************************************************)
(* A save that returned Ok is durable: no later crash or power loss takes  *)
(* the manifest back behind its step.                                      *)
(***************************************************************************)
THEOREM DcpAckedDurable == DcpSpec => []AckedDurable
<1>1. Inv => AckedDurable
  BY DEF Inv, LiveLeads, AckedOnDisk, AckedDurable
<1> QED
  BY <1>1, InitInv, NextInv, PTL DEF DcpSpec

----------------------------------------------------------------------------
(***************************************************************************)
(* The campaign.                                                           *)
(***************************************************************************)

\* The state c continues the state a.
Continues(a, c) ==
    /\ Len(a) <= Len(c)
    /\ \A i \in 1..Len(a) : a[i] = c[i]

CampaignTypes ==
    /\ DOMAIN pc = Savers
    /\ DOMAIN run = Savers
    /\ model \in [Savers -> Seq(Runs)]

\* A process that runs holds the locks, and only a save in progress is open.
Owner(p) ==
    /\ pc[p] # "out" => lock = p /\ run[p] \in Runs
    /\ save[p] # NotSaving => pc[p] = "saving" /\ save[p].state = model[p]

Checkpointing == {"report", "reportSync", "save", "saving"}

\* The trainer's state between a resume and the next commit.
Place(p) ==
    /\ pc[p] = "train" => Len(model[p]) < LastStep
    /\ pc[p] \in Checkpointing => Len(model[p]) \in Step
    /\ pc[p] \in Checkpointing \cup {"train"} => Continues(acked, model[p])

Kept == \A image \in ckpt.crash : Continues(acked, image[Manifest])

CampaignInv ==
    /\ Inv /\ CampaignTypes /\ Kept
    /\ \A p \in Savers : Owner(p) /\ Place(p)

----------------------------------------------------------------------------

LEMMA CampaignInit == Init => CampaignInv
<1> SUFFICES ASSUME Init PROVE CampaignInv
  OBVIOUS
<1>1. Inv
  BY InitInv DEF Init
<1>2. CampaignTypes
  BY DEF Init, CampaignTypes, Absent
<1>3. \A p \in Savers : pc[p] = "out" /\ save[p] = NotSaving
  BY DEF Init, DcpInit
<1>4. \A p \in Savers : Owner(p) /\ Place(p)
  BY <1>3 DEF Owner, Place, Checkpointing
<1>5. acked = << >> /\ Len(acked) = 0
  BY DEF Init, DcpInit, Absent
<1>6. \A image \in ckpt.crash : Len(image[Manifest]) \in 0..LastStep
  BY <1>1 DEF Inv, LiveLeads, Committed
<1>7. Kept
  BY <1>5, <1>6, DcpAssumption DEF Kept, Continues
<1> QED
  BY <1>1, <1>2, <1>4, <1>7 DEF CampaignInv

\* The locks admit one run at a time.
LEMMA OneRun ==
    ASSUME CampaignInv, NEW p \in Savers, pc[p] # "out"
    PROVE  /\ lock = p /\ run[p] \in Runs
           /\ \A q \in Savers : q # p => pc[q] = "out" /\ save[q] = NotSaving
           /\ pc[p] # "saving" => save[p] = NotSaving
  BY DEF CampaignInv, Owner

\* A state of Step steps is one that can be saved.
LEMMA IsState ==
    ASSUME NEW c \in Seq(Runs), Len(c) \in Step
    PROVE  c \in State
<1>1. c \in [1..Len(c) -> Runs]
  OBVIOUS
<1> QED
  BY <1>1 DEF State

\* A run moves on and leaves the checkpoint directory alone.
LEMMA MoveInv ==
    ASSUME CampaignInv, NEW p \in Savers, NEW place,
           pc' = [pc EXCEPT ![p] = place],
           UNCHANGED <<run, model, lock, save, acked>>,
           Inv', Kept',
           pc[p] \notin {"out", "saving"},
           place \notin {"out", "train", "saving"},
           place \in Checkpointing => pc[p] \in Checkpointing
    PROVE  CampaignInv'
<1>1. CampaignTypes'
  BY DEF CampaignInv, CampaignTypes
<1>2. pc'[p] = place /\ \A q \in Savers : q # p => pc'[q] = pc[q]
  BY DEF CampaignInv, CampaignTypes
<1>3. \A q \in Savers : Owner(q)'
  BY <1>2, OneRun DEF Owner
<1>4. Place(p)'
  BY <1>2 DEF CampaignInv, Place
<1>5. \A q \in Savers : q # p => pc'[q] = "out"
  BY <1>2, OneRun
<1>6. \A q \in Savers : q # p => Place(q)'
  BY <1>5 DEF Place, Checkpointing
<1> QED
  BY <1>1, <1>3, <1>4, <1>6 DEF CampaignInv

\* A run ends.
LEMMA ExitInv ==
    ASSUME CampaignInv, NEW p \in Savers, pc[p] # "out", Exit(p),
           Inv', Kept', \A q \in Savers : save'[q] = NotSaving
    PROVE  CampaignInv'
<1>1. CampaignTypes'
  BY DEF CampaignInv, CampaignTypes, Exit, Goto, Absent
<1>2. \A q \in Savers : pc'[q] = "out"
  BY OneRun DEF Exit, Goto, CampaignInv, CampaignTypes
<1>3. \A q \in Savers : Owner(q)' /\ Place(q)'
  BY <1>2 DEF Owner, Place, Checkpointing
<1> QED
  BY <1>1, <1>3 DEF CampaignInv

\* What a run does outside its saves does not touch the directory.
LEMMA UnchangedDcp ==
    ASSUME CampaignInv, UNCHANGED dcpVars
    PROVE  Inv' /\ Kept'
<1>1. Inv'
  BY NextInv DEF CampaignInv
<1>2. Kept'
  BY DEF CampaignInv, Kept, Continues, dcpVars
<1> QED
  BY <1>1, <1>2

\* A directory fsync keeps what it keeps.
LEMMA SyncKept ==
    ASSUME CampaignInv, ckpt' = Synced(ckpt), acked' = acked
    PROVE  Kept'
<1>1. ckpt'.crash = {ckpt.live} /\ ckpt.live \in ckpt.crash
  BY SyncedInv DEF CampaignInv, Inv, LiveLeads
<1> QED
  BY <1>1 DEF CampaignInv, Kept, Continues

----------------------------------------------------------------------------
\* Each action is a step of the directory, and preserves the invariant.

Preserved == CampaignInv' /\ [DcpNext]_dcpVars

LEMMA LaunchInv ==
    ASSUME CampaignInv, NEW p \in Savers, Launch(p)
    PROVE  Preserved
<1>1. UNCHANGED dcpVars /\ Inv' /\ Kept'
  BY UnchangedDcp DEF Launch
<1>2. lock = Nobody /\ \A q \in Savers : pc[q] = "out" /\ save[q] = NotSaving
  BY CampaignAssumption DEF Launch, LocksFree, CampaignInv, Owner
<1>3. CampaignTypes'
  BY DEF Launch, Goto, CampaignInv, CampaignTypes
<1>4. /\ pc'[p] = "source" /\ run'[p] \in Runs /\ lock' = p /\ save' = save
      /\ \A q \in Savers : q # p => pc'[q] = "out"
  BY <1>2 DEF Launch, Goto, CampaignInv, CampaignTypes, dcpVars
<1>5. \A q \in Savers : Owner(q)' /\ Place(q)'
  BY <1>2, <1>4 DEF Owner, Place, Checkpointing
<1> QED
  BY <1>1, <1>3, <1>5 DEF CampaignInv, Preserved

LEMMA ScoringFacts ==
    /\ DOMAIN Scoring = {"source", "ptq", "eval"}
    /\ \A x \in DOMAIN Scoring :
          /\ Scoring[x].sync \in {"sourceSync", "ptqSync", "evalSync"}
          /\ Scoring[x].next \in {"plan", "resume", "final"}
  BY DEF Scoring

\* The steps of a run that leave the checkpoint directory alone.
LEMMA QuietInv ==
    ASSUME CampaignInv, NEW p \in Savers,
           \/ ScoreWindow(p) \/ ScoreDone(p) \/ EnsurePlan(p) \/ PublishReport(p)
           \/ PrepareArtifact(p) \/ PublishFinal(p) \/ SyncReport(p) \/ SyncArtifact(p)
    PROVE  Preserved
<1>1. UNCHANGED dcpVars /\ UNCHANGED <<run, model, lock>>
  BY DEF ScoreWindow, ScoreDone, EnsurePlan, PublishReport, PrepareArtifact, PublishFinal,
         SyncReport, SyncArtifact, locals
<1>2. Inv' /\ Kept'
  BY <1>1, UnchangedDcp
<1>3. UNCHANGED <<save, acked>>
  BY <1>1 DEF dcpVars
<1>4. ASSUME NEW place,
             pc' = [pc EXCEPT ![p] = place],
             pc[p] \notin {"out", "saving"},
             place \notin {"out", "train", "saving"},
             place \in Checkpointing => pc[p] \in Checkpointing
      PROVE  CampaignInv'
  BY <1>1, <1>2, <1>3, <1>4, MoveInv
<1> SUFFICES CampaignInv'
  BY <1>1 DEF Preserved
<1>5. CASE ScoreWindow(p)
  BY <1>4, <1>5, ScoringFacts DEF ScoreWindow, Goto, Checkpointing
<1>6. CASE ScoreDone(p)
  BY <1>4, <1>6, ScoringFacts DEF ScoreDone, Goto, Checkpointing
<1>7. CASE EnsurePlan(p)
  BY <1>4, <1>7 DEF EnsurePlan, Goto, Checkpointing
<1>8. CASE PublishReport(p)
  BY <1>4, <1>8 DEF PublishReport, Goto, Checkpointing
<1>9. CASE PrepareArtifact(p)
  BY <1>4, <1>9 DEF PrepareArtifact, Goto, Checkpointing
<1>10. CASE PublishFinal(p)
  BY <1>4, <1>10 DEF PublishFinal, Goto, Checkpointing
<1>11. CASE SyncReport(p)
  <2>1. pc[p] = "reportSync" /\ pc' = [pc EXCEPT ![p] = "save"]
    <3>1. pc[p] = "reportSync" /\ pc' = [pc EXCEPT ![p] = AfterSync[pc[p]]]
      BY <1>11 DEF SyncReport, Goto
    <3>2. AfterSync["reportSync"] = "save"
      BY DEF AfterSync
    <3> QED
      BY <3>1, <3>2
  <2> QED
    BY <1>4, <2>1 DEF Checkpointing
<1>12. CASE SyncArtifact(p)
  <2>1. pc[p] = "artifactSync" /\ pc' = [pc EXCEPT ![p] = "eval"]
    <3>1. pc[p] = "artifactSync" /\ pc' = [pc EXCEPT ![p] = AfterSync[pc[p]]]
      BY <1>12 DEF SyncArtifact, Goto
    <3>2. AfterSync["artifactSync"] = "eval"
      BY DEF AfterSync
    <3> QED
      BY <3>1, <3>2
  <2> QED
    BY <1>4, <2>1 DEF Checkpointing
<1> QED
  BY <1>5, <1>6, <1>7, <1>8, <1>9, <1>10, <1>11, <1>12

\* The sidecars share the checkpoint directory's fsync.
LEMMA SyncSideInv ==
    ASSUME CampaignInv, NEW p \in Savers, SyncSide(p)
    PROVE  Preserved
<1>1. SiblingSync /\ UNCHANGED <<run, model, lock, save, acked>> /\ ckpt' = Synced(ckpt)
  BY DEF SyncSide, SiblingSync, locals
<1>2. DcpNext
  BY <1>1 DEF DcpNext
<1>3. Inv' /\ Kept'
  BY <1>1, <1>2, NextInv, SyncKept DEF CampaignInv
<1>4. /\ pc[p] \in {"sourceSync", "planSync", "ptqSync", "evalSync"}
      /\ AfterSync[pc[p]] \in {"source", "ptq", "eval"}
      /\ pc' = [pc EXCEPT ![p] = AfterSync[pc[p]]]
  BY DEF SyncSide, AfterSync, Goto
<1>5. CampaignInv'
  BY <1>1, <1>3, <1>4, MoveInv DEF Checkpointing
<1> QED
  BY <1>2, <1>5 DEF Preserved

\* The loaded state is the committed one: it continues what was acknowledged.
LEMMA ResumeInv ==
    ASSUME CampaignInv, NEW p \in Savers, Resume(p)
    PROVE  Preserved
<1>0. PICK step, c : /\ step = Committed(ckpt.live)
                     /\ c = IF step = 0 THEN Absent ELSE Delivered(ckpt.live)[1]
  OBVIOUS
<1>1. /\ UNCHANGED dcpVars /\ UNCHANGED <<run, lock>>
      /\ pc[p] = "resume"
      /\ pc' = [pc EXCEPT ![p] = IF step = LastStep THEN "artifact" ELSE "train"]
      /\ model' = [model EXCEPT ![p] = c]
  BY <1>0 DEF Resume, Goto
<1>2. Inv' /\ Kept' /\ UNCHANGED <<save, acked, ckpt>>
  BY <1>1, UnchangedDcp DEF dcpVars
<1>3. /\ ckpt.live \in ckpt.crash /\ ckpt.live \in Image
      /\ step \in 0..LastStep /\ Intact(ckpt.live)
      /\ Manifest \in Name
  BY <1>0 DEF CampaignInv, Inv, Types, LiveLeads, AllIntact, Name
<1>4. c = ckpt.live[Manifest] /\ c \in Seq(Runs) /\ Len(c) = step
  <2>1. ckpt.live[Manifest] \in Seq(Runs)
    BY <1>3 DEF Image
  <2>2. CASE step = 0
    BY <2>1, <2>2, <1>0 DEF Committed, Absent
  <2>3. CASE step # 0
    BY <2>1, <2>3, <1>0, <1>3, DcpAssumption DEF Delivered, Intact, Committed, Rank
  <2> QED
    BY <2>2, <2>3
<1>5. Continues(acked, c)
  BY <1>3, <1>4 DEF CampaignInv, Kept
<1>6. /\ pc'[p] \in {"artifact", "train"}
      /\ pc'[p] = "train" => step < LastStep
      /\ model'[p] = c
      /\ \A q \in Savers : q # p => pc'[q] = pc[q]
  BY <1>1, <1>3, DcpAssumption DEF CampaignInv, CampaignTypes
<1>7. CampaignTypes'
  BY <1>1, <1>4 DEF CampaignInv, CampaignTypes
<1>8. /\ lock = p /\ run[p] \in Runs /\ save[p] = NotSaving
      /\ \A q \in Savers : q # p => pc[q] = "out" /\ save[q] = NotSaving
  BY <1>1, OneRun
<1>9. \A q \in Savers : Owner(q)'
  BY <1>1, <1>2, <1>6, <1>8 DEF Owner
<1>10. Place(p)'
  BY <1>2, <1>4, <1>5, <1>6 DEF Place, Checkpointing
<1>11. \A q \in Savers : q # p => Place(q)'
  BY <1>6, <1>8 DEF Place, Checkpointing
<1> QED
  BY <1>1, <1>2, <1>7, <1>9, <1>10, <1>11 DEF CampaignInv, Preserved

\* One more step of training continues the state.
LEMMA TrainInv ==
    ASSUME CampaignInv, NEW p \in Savers, Train(p)
    PROVE  Preserved
<1>0. PICK m, r : m = model[p] /\ r = run[p]
  OBVIOUS
<1>1. /\ UNCHANGED dcpVars /\ UNCHANGED <<run, lock>>
      /\ pc[p] = "train"
      /\ pc' = [pc EXCEPT ![p] = IF AtCheckpoint(Len(m) + 1) THEN "report" ELSE "train"]
      /\ model' = [model EXCEPT ![p] = Append(m, r)]
  BY <1>0 DEF Train, Goto
<1>2. Inv' /\ Kept' /\ UNCHANGED <<save, acked>>
  BY <1>1, UnchangedDcp DEF dcpVars
<1>3. /\ lock = p /\ r \in Runs /\ save[p] = NotSaving
      /\ \A q \in Savers : q # p => pc[q] = "out" /\ save[q] = NotSaving
  BY <1>0, <1>1, OneRun
<1>4. m \in Seq(Runs) /\ Len(m) < LastStep /\ Continues(acked, m) /\ acked \in Seq(Runs)
  BY <1>0, <1>1 DEF CampaignInv, CampaignTypes, Place, Inv, Types
<1>5. Append(m, r) \in Seq(Runs) /\ Len(Append(m, r)) = Len(m) + 1
  BY <1>3, <1>4
<1>6. Len(m) + 1 \in Step /\ (~AtCheckpoint(Len(m) + 1) => Len(m) + 1 < LastStep)
  BY <1>4, DcpAssumption DEF Step, AtCheckpoint
<1>7. Continues(acked, Append(m, r))
  <2>1. \A i \in 1..Len(m) : Append(m, r)[i] = m[i]
    BY <1>3, <1>4
  <2> QED
    BY <2>1, <1>4, <1>5 DEF Continues
<1>8. /\ pc'[p] \in {"report", "train"}
      /\ pc'[p] = "train" => Len(m) + 1 < LastStep
      /\ model'[p] = Append(m, r)
      /\ \A q \in Savers : q # p => pc'[q] = pc[q]
  BY <1>1, <1>6 DEF CampaignInv, CampaignTypes
<1>9. CampaignTypes'
  BY <1>1, <1>5 DEF CampaignInv, CampaignTypes
<1>10. \A q \in Savers : Owner(q)'
  BY <1>0, <1>1, <1>2, <1>3, <1>8 DEF Owner
<1>11. Place(p)'
  BY <1>2, <1>5, <1>6, <1>7, <1>8 DEF Place, Checkpointing
<1>12. \A q \in Savers : q # p => Place(q)'
  BY <1>3, <1>8 DEF Place, Checkpointing
<1> QED
  BY <1>1, <1>2, <1>9, <1>10, <1>11, <1>12 DEF CampaignInv, Preserved

\* Nobody else saves when save_from begins: the locks are the run's.
LEMMA BeginSaveInv ==
    ASSUME CampaignInv, NEW p \in Savers, BeginSave(p)
    PROVE  Preserved
<1>0. PICK m : m = model[p]
  OBVIOUS
<1>1. /\ pc[p] = "save" /\ SaveFrom(p, m) /\ UNCHANGED <<run, model, lock>>
      /\ pc' = [pc EXCEPT ![p] = "saving"]
      /\ save' = [save EXCEPT ![p] = [phase |-> "shard", state |-> m, rank |-> 1]]
      /\ UNCHANGED <<ckpt, acked>>
  BY <1>0 DEF BeginSave, SaveFrom, Goto, locals
<1>2. /\ lock = p /\ run[p] \in Runs
      /\ \A q \in Savers : save[q] = NotSaving
      /\ \A q \in Savers : q # p => pc[q] = "out"
  BY <1>1, OneRun
<1>3. m \in Seq(Runs) /\ Len(m) \in Step /\ Continues(acked, m)
  BY <1>0, <1>1 DEF CampaignInv, CampaignTypes, Place, Checkpointing
<1>4. DcpNext
  BY <1>1, <1>2, <1>3, IsState DEF DcpNext
<1>5. Inv' /\ Kept'
  BY <1>1, <1>4, NextInv DEF CampaignInv, Kept
<1>6. CampaignTypes'
  BY <1>1 DEF CampaignInv, CampaignTypes
<1>7. /\ pc'[p] = "saving" /\ save'[p].state = m
      /\ \A q \in Savers : q # p => pc'[q] = "out" /\ save'[q] = NotSaving
  BY <1>1, <1>2 DEF CampaignInv, CampaignTypes, Inv, Types
<1>8. \A q \in Savers : Owner(q)'
  BY <1>0, <1>1, <1>2, <1>7 DEF Owner
<1>9. \A q \in Savers : Place(q)'
  BY <1>0, <1>1, <1>3, <1>7 DEF Place, Checkpointing
<1> QED
  BY <1>4, <1>5, <1>6, <1>8, <1>9 DEF CampaignInv, Preserved

\* A save goes on, in the run that began it.
LEMMA SavingInv ==
    ASSUME CampaignInv, NEW p \in Savers, pc[p] = "saving",
           UNCHANGED <<pc, run, model, lock>>, Inv', Kept', acked' = acked,
           save[p] # NotSaving, save'[p].state = save[p].state,
           \A q \in Savers : q # p => save'[q] = save[q]
    PROVE  CampaignInv'
<1>1. CampaignTypes'
  BY DEF CampaignInv, CampaignTypes
<1>2. \A q \in Savers : Owner(q)'
  BY DEF CampaignInv, Owner
<1>3. \A q \in Savers : Place(q)'
  BY DEF CampaignInv, Place
<1> QED
  BY <1>1, <1>2, <1>3 DEF CampaignInv

\* A renamed shard leaves the manifests alone; a renamed manifest continues
\* what was acknowledged.
LEMMA SaveFileInv ==
    ASSUME CampaignInv, NEW p \in Savers, SaveFile(p)
    PROVE  Preserved
<1>0. PICK c, k : c = save[p].state /\ k = save[p].rank
  OBVIOUS
<1>1. /\ pc[p] = "saving" /\ UNCHANGED <<pc, run, model, lock>> /\ acked' = acked
      /\ save[p].phase # "idle"
      /\ RenameShard(p) \/ RenameManifest(p)
  BY DEF SaveFile, RenameShard, RenameManifest, campaignVars, locals
<1>2. DcpNext
  BY <1>1 DEF DcpNext
<1>3. Inv'
  BY <1>2, NextInv DEF CampaignInv
<1>4. save[p] # NotSaving
  BY <1>1 DEF NotSaving
<1>5. /\ save'[p].state = save[p].state
      /\ \A q \in Savers : q # p => save'[q] = save[q]
  BY <1>1 DEF RenameShard, RenameManifest, CampaignInv, Inv, Types
<1>6. /\ c \in Seq(Runs) /\ Len(c) \in Step /\ k \in Rank /\ Continues(acked, c)
  BY <1>0, <1>1, <1>4 DEF CampaignInv, Inv, Types, SaveInv, Owner, Place, Checkpointing
<1>7. ckpt \in [live : Image, crash : SUBSET Image] /\ ckpt.live \in ckpt.crash
  BY DEF CampaignInv, Inv, Types, LiveLeads
<1>8. /\ Manifest \in Name /\ Shard(Len(c), k) \in Name /\ Shard(Len(c), k) # Manifest
  BY <1>6, Names
<1>9. ASSUME NEW image \in ckpt'.crash
      PROVE  Continues(acked, image[Manifest])
  <2>1. CASE RenameShard(p)
    <3>1. ckpt' = Rename(ckpt, Shard(Len(c), k), c)
      BY <1>0, <2>1 DEF RenameShard
    <3>2. \/ image \in ckpt.crash
          \/ \E old \in ckpt.crash : \A m \in Name : m # Shard(Len(c), k) => image[m] = old[m]
      <4>1. PICK n \in Name : n = Shard(Len(c), k)
        BY <1>8
      <4>2. ckpt' = Rename(ckpt, n, c)
        BY <3>1, <4>1
      <4>3. \A i \in ckpt'.crash :
               \/ i \in ckpt.crash
               \/ /\ i[n] = c
                  /\ \E old \in ckpt.crash : \A m \in Name : m # n => i[m] = old[m]
        BY <4>2, <1>6, <1>7, RenameFacts
      <4> QED
        BY <4>1, <4>3
    <3>3. \E old \in ckpt.crash : image[Manifest] = old[Manifest]
      BY <3>2, <1>8
    <3> QED
      BY <3>3 DEF CampaignInv, Kept
  <2>2. CASE RenameManifest(p)
    <3>1. ckpt' = Rename(ckpt, Manifest, c)
      BY <1>0, <2>2 DEF RenameManifest
    <3>2. image \in ckpt.crash \/ image[Manifest] = c
      BY <3>1, <1>6, <1>7, <1>8, RenameFacts
    <3> QED
      BY <3>2, <1>6 DEF CampaignInv, Kept
  <2> QED
    BY <1>1, <2>1, <2>2
<1>10. Kept'
  BY <1>1, <1>9 DEF Kept, Continues
<1>11. CampaignInv'
  BY <1>1, <1>3, <1>4, <1>5, <1>10, SavingInv
<1> QED
  BY <1>2, <1>11 DEF Preserved

\* The fsync of a shard, or of the manifest: then the state is acknowledged.
LEMMA SaveSyncInv ==
    ASSUME CampaignInv, NEW p \in Savers, SaveSync(p)
    PROVE  Preserved
<1>0. PICK m : m = model[p]
  OBVIOUS
<1>1. pc[p] = "saving" /\ UNCHANGED <<run, model, lock>>
  BY DEF SaveSync, locals
<1>2. m \in Seq(Runs) /\ Len(m) \in Step
  BY <1>0, <1>1 DEF CampaignInv, CampaignTypes, Place, Checkpointing
<1>3. CASE SyncShard(p) /\ UNCHANGED pc
  <2>1. DcpNext
    BY <1>3 DEF DcpNext
  <2>2. Inv' /\ Kept' /\ acked' = acked
    BY <1>3, <2>1, NextInv, SyncKept DEF CampaignInv, SyncShard
  <2>3. save[p] # NotSaving
    BY <1>3 DEF SyncShard, NotSaving
  <2>4. save'[p] = AfterShard(save[p]) /\ \A q \in Savers : q # p => save'[q] = save[q]
    BY <1>3 DEF SyncShard, CampaignInv, Inv, Types
  <2>5. save'[p].state = save[p].state
    BY <2>4 DEF AfterShard
  <2>6. CampaignInv'
    BY <1>1, <1>3, <2>2, <2>3, <2>4, <2>5, SavingInv
  <2> QED
    BY <2>1, <2>6 DEF Preserved
<1>4. CASE SyncManifest(p) /\ Goto(p, IF Len(model[p]) = LastStep THEN "artifact" ELSE "train")
  <2>1. DcpNext
    BY <1>4 DEF DcpNext
  <2>2. Inv'
    BY <2>1, NextInv DEF CampaignInv
  <2>3. save[p].phase = "manifestSync" /\ save[p] # NotSaving
    BY <1>4 DEF SyncManifest, NotSaving
  <2>4. save[p].state = m /\ ckpt.live[Manifest] = m
    BY <1>0, <2>3 DEF CampaignInv, Owner, Inv, SaveInv
  <2>5. acked' = m /\ ckpt' = Synced(ckpt) /\ save' = [save EXCEPT ![p] = NotSaving]
    BY <1>4, <2>4 DEF SyncManifest
  <2>6. ckpt'.crash = {ckpt.live}
    BY <2>5, SyncedInv DEF CampaignInv
  <2>7. Continues(m, m)
    BY <1>2 DEF Continues
  <2>8. Kept'
    BY <2>4, <2>5, <2>6, <2>7 DEF Kept, Continues
  <2>9. /\ lock = p /\ run[p] \in Runs
        /\ \A q \in Savers : q # p => pc[q] = "out" /\ save[q] = NotSaving
    BY <1>1, OneRun
  <2>10. /\ pc' = [pc EXCEPT ![p] = IF Len(m) = LastStep THEN "artifact" ELSE "train"]
         /\ Len(m) \in Nat /\ Len(m) <= LastStep
    BY <1>0, <1>2, <1>4, DcpAssumption DEF Goto, Step
  <2>11. /\ pc'[p] \in {"artifact", "train"} /\ save'[p] = NotSaving
         /\ pc'[p] = "train" => Len(m) < LastStep
         /\ \A q \in Savers : q # p => pc'[q] = "out" /\ save'[q] = NotSaving
    BY <2>5, <2>9, <2>10, DcpAssumption DEF CampaignInv, CampaignTypes, Inv, Types
  <2>12. CampaignTypes'
    BY <1>1, <2>10 DEF CampaignInv, CampaignTypes
  <2>13. \A q \in Savers : Owner(q)'
    BY <1>1, <2>9, <2>11 DEF Owner
  <2>14. \A q \in Savers : Place(q)'
    BY <1>0, <1>1, <2>5, <2>7, <2>11 DEF Place, Checkpointing, Continues
  <2> QED
    BY <2>1, <2>2, <2>8, <2>12, <2>13, <2>14 DEF CampaignInv, Preserved
<1> QED
  BY <1>3, <1>4 DEF SaveSync

\* A run that refuses, or that ends, is not in the middle of a save.
LEMMA EndInv ==
    ASSUME CampaignInv, NEW p \in Savers, Refuse(p) \/ SyncFinal(p)
    PROVE  Preserved
<1>1. UNCHANGED dcpVars /\ Exit(p)
  BY DEF Refuse, SyncFinal
<1>2. pc[p] \notin {"out", "saving"}
  BY ScoringFacts DEF Refuse, SyncFinal, Cause
<1>3. Inv' /\ Kept'
  BY <1>1, UnchangedDcp
<1>4. \A q \in Savers : save'[q] = NotSaving
  BY <1>1, <1>2, OneRun DEF dcpVars
<1>5. CampaignInv'
  BY <1>1, <1>2, <1>3, <1>4, ExitInv
<1> QED
  BY <1>1, <1>5 DEF Preserved

LEMMA DiesInv ==
    ASSUME CampaignInv, NEW p \in Savers, Dies(p)
    PROVE  Preserved
<1>1. pc[p] # "out" /\ Exit(p) /\ SaveStops(p)
  BY DEF Dies
<1>2. DcpNext
  BY <1>1 DEF DcpNext
<1>3. Inv' /\ Kept'
  BY <1>1, <1>2, NextInv DEF CampaignInv, Kept, SaveStops
<1>4. \A q \in Savers : save'[q] = NotSaving
  BY <1>1, OneRun DEF SaveStops, CampaignInv, Inv, Types
<1>5. CampaignInv'
  BY <1>1, <1>3, <1>4, ExitInv
<1> QED
  BY <1>2, <1>5 DEF Preserved

LEMMA CampaignPowerLossInv ==
    ASSUME CampaignInv, PowerLoss
    PROVE  Preserved
<1>1. DcpPowerLoss
  BY DEF PowerLoss
<1>2. DcpNext
  BY <1>1 DEF DcpNext
<1>3. Inv'
  BY <1>2, NextInv DEF CampaignInv
<1>4. PICK image \in ckpt.crash : ckpt' = [live |-> image, crash |-> {image}]
  BY <1>1 DEF DcpPowerLoss, Outcomes, Settled
<1>5. Kept'
  BY <1>1, <1>4 DEF CampaignInv, Kept, DcpPowerLoss, Continues
<1>6. CampaignTypes'
  BY DEF PowerLoss, CampaignTypes, Absent
<1>7. \A q \in Savers : pc'[q] = "out" /\ save'[q] = NotSaving
  BY <1>1 DEF PowerLoss, DcpPowerLoss
<1>8. \A q \in Savers : Owner(q)' /\ Place(q)'
  BY <1>7 DEF Owner, Place, Checkpointing
<1> QED
  BY <1>2, <1>3, <1>5, <1>6, <1>8 DEF CampaignInv, Preserved

LEMMA CampaignNext == CampaignInv /\ [Next]_vars => Preserved
<1> SUFFICES ASSUME CampaignInv, [Next]_vars PROVE Preserved
  OBVIOUS
<1>1. ASSUME NEW p \in Savers, Launch(p) \/ Progress(p) \/ Dies(p)
      PROVE  Preserved
  BY <1>1, LaunchInv, QuietInv, SyncSideInv, ResumeInv, TrainInv, BeginSaveInv, SaveFileInv,
     SaveSyncInv, EndInv, DiesInv DEF Progress
<1>2. CASE UNCHANGED vars
  <2>1. UNCHANGED dcpVars /\ UNCHANGED <<save, acked, pc, run, model, lock>>
    BY <1>2 DEF vars, dcpVars, campaignVars, locals
  <2>2. Inv' /\ Kept'
    BY <2>1, UnchangedDcp
  <2>3. CampaignTypes' /\ \A q \in Savers : Owner(q)' /\ Place(q)'
    BY <2>1 DEF CampaignInv, CampaignTypes, Owner, Place, Continues
  <2> QED
    BY <2>1, <2>2, <2>3 DEF CampaignInv, Preserved
<1> QED
  BY <1>1, <1>2, CampaignPowerLossInv DEF Next

(***************************************************************************)
(* The campaign's locks are what save_from relies on: whatever processes   *)
(* are launched, killed and launched again, the checkpoint directory sees  *)
(* one save at a time, as Dcp assumes.                                     *)
(***************************************************************************)
THEOREM CampaignImplementsDcp == Spec => DcpSpec
<1>1. CampaignInv /\ [Next]_vars => CampaignInv' /\ [DcpNext]_dcpVars
  BY CampaignNext DEF Preserved
<1>2. Init => DcpInit
  BY DEF Init
<1> QED
  BY <1>1, <1>2, CampaignInit, PTL DEF Spec, DcpSpec

(***************************************************************************)
(* A campaign never resumes from a torn checkpoint, whatever is killed and *)
(* whenever power is lost.                                                 *)
(***************************************************************************)
THEOREM CampaignNeverTorn == Spec => []NeverTorn
  BY CampaignImplementsDcp, DcpNeverTorn, PTL

(***************************************************************************)
(* Committed training is never redone: every manifest that may survive     *)
(* continues the state whose save last returned Ok.                        *)
(***************************************************************************)
THEOREM CampaignAckedKept == Spec => []AckedKept
<1>1. CampaignInv => AckedKept
  BY DEF CampaignInv, Inv, LiveLeads, Kept, Continues, AckedKept, Committed
<1>2. CampaignInv /\ [Next]_vars => CampaignInv'
  BY CampaignNext DEF Preserved
<1> QED
  BY <1>1, <1>2, CampaignInit, PTL DEF Spec

=============================================================================
