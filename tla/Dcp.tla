-------------------------------- MODULE Dcp ---------------------------------
(***************************************************************************)
(* The distributed checkpoint directory (tritium-train, dcp.rs): one shard *)
(* file per rank, named by its step, and a manifest renamed last.          *)
(*                                                                         *)
(* Training is not assumed to be reproducible: the trainer's state after s *)
(* steps is the sequence of the s runs that made those steps, so two runs  *)
(* that train the same step reach different states.  The empty sequence    *)
(* stands for an absent file.                                              *)
(***************************************************************************)
EXTENDS Naturals, Sequences, DurableDir

CONSTANTS
    Savers,    \* the processes that may save into the directory
    Runs,      \* identities of training runs
    World,     \* shards of a checkpoint
    LastStep   \* the largest step saved

ASSUME DcpAssumption == World \in Nat \ {0} /\ LastStep \in Nat \ {0}

VARIABLES
    ckpt,      \* the checkpoint directory: manifest and shards
    save,      \* save[p] = the save process p is in the middle of
    acked      \* the last state whose save returned Ok

dcpVars == <<ckpt, save, acked>>

Rank == 1..World
Step == 1..LastStep

\* A trainer state of at least one step.
State == UNION {[1..s -> Runs] : s \in Step}

Absent == << >>
Manifest == <<0, 0>>
Shard(s, r) == <<s, r>>
Name == {Manifest} \cup (Step \X Rank)

NotSaving == [phase |-> "idle", state |-> Absent, rank |-> 0]

DcpInit ==
    /\ ckpt = Settled([n \in Name |-> Absent])
    /\ save = [p \in Savers |-> NotSaving]
    /\ acked = Absent

\* The committed step of an image; 0 without a manifest.
Committed(image) == Len(image[Manifest])

\* The monotonic-step guard of save_from.
MayAdvance(c) == Len(c) > Committed(ckpt.live)

\* save_from up to its first write: the guard reads the live manifest.
SaveFrom(p, c) ==
    /\ save[p] = NotSaving
    /\ MayAdvance(c)
    /\ save' = [save EXCEPT ![p] = [phase |-> "shard", state |-> c, rank |-> 1]]
    /\ UNCHANGED <<ckpt, acked>>

\* One shard: written and fsynced under a temporary name, then renamed.
RenameShard(p) ==
    /\ save[p].phase = "shard"
    /\ ckpt' = Rename(ckpt, Shard(Len(save[p].state), save[p].rank), save[p].state)
    /\ save' = [save EXCEPT ![p].phase = "shardSync"]
    /\ UNCHANGED acked

\* Mutant of AfterShard: the manifest is committed before the last shard.
AfterShardEarly(sv) ==
    IF sv.rank + 1 < World
      THEN [phase |-> "shard", state |-> sv.state, rank |-> sv.rank + 1]
      ELSE [phase |-> "manifest", state |-> sv.state, rank |-> sv.rank]

\* The loop over the ranks, then the manifest.
AfterShard(sv) ==
    IF sv.rank < World
      THEN [phase |-> "shard", state |-> sv.state, rank |-> sv.rank + 1]
      ELSE [phase |-> "manifest", state |-> sv.state, rank |-> sv.rank]

\* The directory fsync after a shard's rename.
SyncShard(p) ==
    /\ save[p].phase = "shardSync"
    /\ ckpt' = Synced(ckpt)
    /\ save' = [save EXCEPT ![p] = AfterShard(save[p])]
    /\ UNCHANGED acked

\* The commit point.
RenameManifest(p) ==
    /\ save[p].phase = "manifest"
    /\ ckpt' = Rename(ckpt, Manifest, save[p].state)
    /\ save' = [save EXCEPT ![p].phase = "manifestSync"]
    /\ UNCHANGED acked

\* Mutant of SyncManifest: Ok is returned without the directory fsync.
ManifestUnsynced(p) ==
    /\ save[p].phase = "manifestSync"
    /\ acked' = save[p].state
    /\ save' = [save EXCEPT ![p] = NotSaving]
    /\ UNCHANGED ckpt

\* The directory fsync after the manifest's rename; save_from returns Ok.
SyncManifest(p) ==
    /\ save[p].phase = "manifestSync"
    /\ ckpt' = Synced(ckpt)
    /\ acked' = save[p].state
    /\ save' = [save EXCEPT ![p] = NotSaving]

(***************************************************************************)
(* A write, a rename or a directory fsync fails and save_from returns the  *)
(* error, or the process dies.  The renames already made stay.             *)
(***************************************************************************)
SaveStops(p) ==
    /\ save' = [save EXCEPT ![p] = NotSaving]
    /\ UNCHANGED <<ckpt, acked>>

\* Another file of the directory is published, and the directory fsynced.
SiblingSync ==
    /\ ckpt' = Synced(ckpt)
    /\ UNCHANGED <<save, acked>>

\* Every process dies and the disk holds one of the crash images.
DcpPowerLoss ==
    /\ ckpt' \in Outcomes(ckpt)
    /\ save' = [p \in Savers |-> NotSaving]
    /\ UNCHANGED acked

(***************************************************************************)
(* load_into: every shard the manifest names is opened and its header      *)
(* (step, world, rank) and length checked before any state is delivered;   *)
(* the payload is not digested, so the loader cannot tell apart two states *)
(* of the same step.                                                       *)
(***************************************************************************)
Loadable(image) ==
    \A r \in Rank : Len(image[Shard(Committed(image), r)]) = Committed(image)

\* The delivered state, one slice per rank.
Delivered(image) ==
    [r \in Rank |-> image[Shard(Committed(image), r)]]

\* The steps of the directory when at most one process saves at a time.
DcpNext ==
    \/ \E p \in Savers :
          \/ /\ \A q \in Savers : save[q] = NotSaving
             /\ \E c \in State : SaveFrom(p, c)
          \/ RenameShard(p)
          \/ SyncShard(p)
          \/ RenameManifest(p)
          \/ SyncManifest(p)
          \/ SaveStops(p)
    \/ SiblingSync
    \/ DcpPowerLoss

DcpSpec == DcpInit /\ [][DcpNext]_dcpVars

----------------------------------------------------------------------------

\* What an image holds is what one save was given, on every rank.
Intact(image) ==
    Committed(image) > 0 =>
        \A r \in Rank : image[Shard(Committed(image), r)] = image[Manifest]

(***************************************************************************)
(* A committed manifest names only fully written shards of its own save:   *)
(* the live directory and every directory a power loss may leave load, and *)
(* load exactly the state one save_from was given.                         *)
(***************************************************************************)
NeverTorn == \A image \in ckpt.crash \cup {ckpt.live} : Intact(image)

(***************************************************************************)
(* A save that returned Ok survives: whatever a crash or a power loss does *)
(* next, the manifest names that step or a later one.                      *)
(***************************************************************************)
AckedDurable ==
    \A image \in ckpt.crash \cup {ckpt.live} : Committed(image) >= Len(acked)

=============================================================================
