----------------------------- MODULE DurableDir -----------------------------
(***************************************************************************)
(* A directory as the crash-atomic writers use it: a file is written to a  *)
(* private temporary, fsynced and renamed into place, and then the         *)
(* directory is fsynced.  A directory has a live image, which processes    *)
(* read, and a set of crash images, any of which a power loss may leave:   *)
(* the renames made since the last successful directory fsync persist      *)
(* independently of each other.  An image maps file names to contents;     *)
(* contents are never partial, the temporary being fsynced before its      *)
(* rename.                                                                 *)
(***************************************************************************)

\* A directory whose live image is on disk.
Settled(image) == [live |-> image, crash |-> {image}]

\* The rename of a finished temporary to `name`.
Rename(dir, name, content) ==
    [live  |-> [dir.live EXCEPT ![name] = content],
     crash |-> dir.crash \cup {[image EXCEPT ![name] = content] : image \in dir.crash}]

\* Mutant of Synced: the directory is not fsynced.
NotSynced(dir) == dir

\* A successful fsync of the directory.
Synced(dir) == Settled(dir.live)

\* What a power loss may leave.
Outcomes(dir) == {Settled(image) : image \in dir.crash}

=============================================================================
