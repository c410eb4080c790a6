------------------------------ MODULE MCStore -------------------------------
(***************************************************************************)
(* What becomes of a sandbox's files when they are merged, stored, restored *)
(* and worked on again, eight instances one of which (part) a behaviour is *)
(* about: the merge of two trees, the line merge, the merge of the         *)
(* processes, the zfs datasets, the btrfs subvolumes (the flows with       *)
(* failures, and changesets overlapping them without), a replayed session  *)
(* that edits a restored file, and the parser of its trace.                *)
(***************************************************************************)
EXTENDS TreeMerge, ZfsVolume, BtrfsVolume, TraceReplay, TLC

CONSTANTS b1, b2, s1, s2, d1, d2
TwoForkVols == <<"f1", "f2">>
Sym == Permutations({b1, b2}) \cup Permutations({s1, s2}) \cup Permutations({d1, d2})

VARIABLE part
mergevars == <<mvars, tmvars, pmvars>>
usevars == <<trvars, raw>>
storevars == <<part, mergevars, zvars, bvars, usevars>>

\* An instance the behaviour is not about holds nothing.
Bare == [p \in Paths |-> None]
StoreInit ==
    /\ part \in {"tree", "text", "procs", "zfs", "btrfs", "diffs", "trace", "parse"}
    /\ part # "tree" => mbase = Bare /\ mfork = Bare /\ msource = Bare /\ moved = FALSE /\ policy = "fail_fast"
    /\ MInit
    /\ part # "text" => sides = <<{}, {}>>
    /\ TmInit
    /\ part # "procs" => bg = FALSE
    /\ PmInit
    /\ IF part = "zfs" THEN ZInit
       ELSE /\ ds = [v \in Vols |-> NoDs] /\ zkept = [v \in Vols |-> NoManifests] /\ zck = 0
            /\ zop = NoOp /\ zanswer = NoAnswer /\ dropped = {} /\ zfaults = 0
    /\ IF part \in {"btrfs", "diffs"} THEN BInit
       ELSE /\ sub = [s \in Boxes |-> Gone] /\ mounts = [s \in Boxes |-> <<>>] /\ trash = [s \in Boxes |-> FALSE]
            /\ csnap = [s \in Boxes |-> [n \in CkNames |-> Gone]] /\ job = [s \in Boxes |-> NoJob]
            /\ diff = [n \in Diffs |-> NoDiff] /\ bfaults = 0
    /\ part # "trace" => /\ service = "claude" /\ tools = [i \in Steps0 |-> "text"]
                         /\ ver = [i \in 0..TraceLen |-> "v1"]
    /\ TRInit /\ raw = <<>>

StoreNext ==
    /\ UNCHANGED part
    /\ \/ part = "tree" /\ MNext /\ UNCHANGED <<tmvars, pmvars, zvars, bvars, usevars>>
       \/ part = "text" /\ TmNext /\ UNCHANGED <<mvars, pmvars, zvars, bvars, usevars>>
       \/ part = "procs" /\ PmNext /\ UNCHANGED <<mvars, tmvars, zvars, bvars, usevars>>
       \/ part = "zfs" /\ ZNext /\ UNCHANGED <<mergevars, bvars, usevars>>
       \/ part = "btrfs" /\ BNext /\ diff' = diff /\ UNCHANGED <<mergevars, zvars, usevars>>
       \/ part = "diffs" /\ BNext /\ bfaults' = bfaults /\ UNCHANGED <<mergevars, zvars, usevars>>
       \/ part = "trace" /\ TRNext /\ UNCHANGED <<mergevars, zvars, bvars, raw>>
       \/ part = "parse" /\ Record /\ UNCHANGED <<mergevars, zvars, bvars, trvars>>

StoreSpec == StoreInit /\ [][StoreNext]_storevars

\* What a volume gives back is what was checkpointed: a zfs rollback and a btrfs
\* restore are exact, and served, kept checkpoints survive forks and swaps, and
\* a changeset compares with its own snapshot.
VolumesAreSound == ZTypeOK /\ RollbackIsExact /\ SnapshotsSurvive /\ RestoredIsServed /\ DiffIsOwn
=============================================================================
