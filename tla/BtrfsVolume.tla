---------------------------- MODULE BtrfsVolume -----------------------------
(***************************************************************************)
(* BtrfsProvider (src/crab/runtime/btrfs_provider.py; OverlayProvider      *)
(* inherits these flows): a sandbox's tree is a subvolume bound at its     *)
(* rootfs, a checkpoint a read-only snapshot beside it.  A restore moves   *)
(* the live subvolume aside and snapshots the checkpoint back; a changeset *)
(* compares a transient snapshot with a checkpoint.  Commands fail, the    *)
(* daemon dies between two of them, and changesets overlap everything.     *)
(***************************************************************************)
EXTENDS Integers, Sequences, FiniteSets

CONSTANTS Boxes, CkNames, Bytes, Gone,   \* sandboxes, checkpoints, contents, no content
          Diffs,                         \* callers of changeset_since
          MaxBtrfsFaults                 \* bound: commands that fail and deaths of the daemon

VARIABLES sub,     \* the live subvolume of a sandbox
          csnap,   \* its checkpoint snapshots
          trash,   \* whether something moved aside is not deleted yet
          mounts,  \* what is bound at the rootfs, newest first: "live" or "aside"
          job,     \* the restore, fork or destroy of a sandbox under way
          diff,    \* the changeset calls: their step, sandbox, base and transient snapshot
          bfaults
bvars == <<sub, csnap, trash, mounts, job, diff, bfaults>>

NoJob == [pc |-> "idle", from |-> Gone, c |-> Gone]
NoDiff == [pc |-> "idle", b |-> Gone, c |-> Gone, tmp |-> Gone, seen |-> Gone, got |-> Gone]
BInit == /\ \E b \in Boxes, x \in Bytes : /\ sub = [a \in Boxes |-> IF a = b THEN x ELSE Gone]
                                          /\ mounts = [a \in Boxes |-> IF a = b THEN <<"live">> ELSE <<>>]
         /\ csnap = [a \in Boxes |-> [c \in CkNames |-> Gone]] /\ trash = [a \in Boxes |-> FALSE]
         /\ job = [a \in Boxes |-> NoJob] /\ diff = [d \in Diffs |-> NoDiff] /\ bfaults = 0

JobGo(b, p) == job' = [job EXCEPT ![b] = IF p = "idle" THEN NoJob ELSE [@ EXCEPT !.pc = p]]
Fails == bfaults < MaxBtrfsFaults /\ bfaults' = bfaults + 1
Resting(b) == job[b].pc = "idle"
Exists(b) == sub[b] # Gone
Served(b) == mounts[b] # <<>> /\ Head(mounts[b]) = "live"
-----------------------------------------------------------------------------
\* The sandbox's processes write through the mount on top of the rootfs.
WriteThrough(b, x) == /\ Resting(b) /\ Exists(b) /\ Served(b) /\ x # sub[b]
                      /\ sub' = [sub EXCEPT ![b] = x]
                      /\ UNCHANGED <<csnap, trash, mounts, job, diff, bfaults>>

\* checkpoint_filesystem.
SnapshotTree(b, c) == /\ Resting(b) /\ Exists(b) /\ csnap[b][c] = Gone /\ csnap' = [csnap EXCEPT ![b][c] = sub[b]]
                      /\ UNCHANGED <<sub, trash, mounts, job, diff, bfaults>>

\* destroy_snapshot_ref and discard_partial_checkpoint; a failure is logged.
DeleteSnapshot(b, c) == /\ csnap[b][c] # Gone /\ csnap' = [csnap EXCEPT ![b][c] = Gone]
                        /\ UNCHANGED <<sub, trash, mounts, job, diff, bfaults>>
-----------------------------------------------------------------------------
(* restore_filesystem                                                      *)
RestoreBox(b, c) == /\ Resting(b) /\ \E a \in CkNames : csnap[b][a] # Gone
                    /\ job' = [job EXCEPT ![b] = [pc |-> "reclaim", from |-> b, c |-> c]]
                    /\ UNCHANGED <<sub, csnap, trash, mounts, diff, bfaults>>

\* Trash of an earlier restore is deleted, the rootfs unbound; neither blocks.
Reclaim(b) == /\ job[b].pc = "reclaim" /\ JobGo(b, "aside")
              /\ \/ trash' = [trash EXCEPT ![b] = FALSE] /\ mounts' = [mounts EXCEPT ![b] = IF @ = <<>> THEN @ ELSE Tail(@)]
                    /\ UNCHANGED bfaults
                 \/ Fails /\ UNCHANGED <<trash, mounts>>
              /\ UNCHANGED <<sub, csnap, diff>>

\* The live subvolume, if there is one, is renamed out of the way; a mount
\* that stayed follows it.
SwapOut(b) == /\ job[b].pc = "aside"
              /\ \/ /\ Exists(b) /\ trash' = [trash EXCEPT ![b] = TRUE] /\ sub' = [sub EXCEPT ![b] = Gone]
                    /\ mounts' = [mounts EXCEPT ![b] = [i \in DOMAIN @ |-> "aside"]] /\ JobGo(b, "back") /\ UNCHANGED bfaults
                 \/ ~Exists(b) /\ JobGo(b, "back") /\ UNCHANGED <<sub, trash, mounts, bfaults>>
                 \/ Exists(b) /\ Fails /\ JobGo(b, "idle") /\ UNCHANGED <<sub, trash, mounts>>
              /\ UNCHANGED <<csnap, diff>>

\* The checkpoint is snapshotted back to the live path.
MovedBack(b) == csnap' = [csnap EXCEPT ![b][job[b].c] = Gone]
KeptBack(b) == UNCHANGED csnap
SnapBack(b) == /\ job[b].pc = "back"
               /\ \/ /\ csnap[b][job[b].c] # Gone /\ sub' = [sub EXCEPT ![b] = csnap[b][job[b].c]]
                     /\ KeptBack(b) /\ JobGo(b, "bind") /\ UNCHANGED bfaults
                  \/ csnap[b][job[b].c] = Gone /\ JobGo(b, "idle") /\ UNCHANGED <<sub, csnap, bfaults>>
                  \/ Fails /\ JobGo(b, "idle") /\ UNCHANGED <<sub, csnap>>
               /\ UNCHANGED <<trash, mounts, diff>>

\* It is bound over whatever is still mounted there.
BindOver(b) == <<"live">> \o mounts[b]
Bind(b) == /\ job[b].pc = "bind"
           /\ \/ mounts' = [mounts EXCEPT ![b] = BindOver(b)] /\ JobGo(b, "sweep") /\ UNCHANGED bfaults
              \/ Fails /\ JobGo(b, "idle") /\ UNCHANGED mounts
           /\ UNCHANGED <<sub, csnap, trash, diff>>

\* The trash is deleted (best effort) and the restore succeeds.
Sweep(b) == /\ job[b].pc = "sweep" /\ JobGo(b, "idle")
            /\ \/ trash' = [trash EXCEPT ![b] = FALSE] /\ UNCHANGED bfaults
               \/ Fails /\ UNCHANGED trash
            /\ UNCHANGED <<sub, csnap, mounts, diff>>
-----------------------------------------------------------------------------
(* destroy_filesystem_dataset and clone_filesystem_snapshot                *)
\* The rootfs is unbound (best effort).  The target of a clone is a new
\* sandbox or a source just destroyed for a promotion, and is cleared again.
DestroyBox(b) == /\ Resting(b) /\ Exists(b) /\ JobGo(b, "wipe")
                 /\ \/ mounts' = [mounts EXCEPT ![b] = IF @ = <<>> THEN @ ELSE Tail(@)] /\ UNCHANGED bfaults
                    \/ Fails /\ UNCHANGED mounts
                 /\ UNCHANGED <<sub, csnap, trash, diff>>
CloneBox(b, t, c) == /\ Resting(b) /\ Resting(t) /\ b # t /\ csnap[b][c] # Gone
                     /\ ~Served(t)
                     /\ job' = [job EXCEPT ![t] = [pc |-> "wipe", from |-> b, c |-> c]]
                     /\ UNCHANGED <<sub, csnap, trash, mounts, diff, bfaults>>

\* destroy_dataset: the siblings name@* one by one, transient snapshots of
\* changesets among them, then the subvolume; a failed delete is ignored.
Wipe(b) == /\ job[b].pc = "wipe"
           /\ \/ \E c \in CkNames : /\ csnap[b][c] # Gone /\ csnap' = [csnap EXCEPT ![b][c] = Gone]
                                    /\ UNCHANGED <<job, diff, bfaults>>
              \/ \E d \in Diffs : /\ diff[d].b = b /\ diff[d].tmp # Gone /\ diff' = [diff EXCEPT ![d].tmp = Gone]
                                  /\ UNCHANGED <<csnap, job, bfaults>>
              \/ (\A c \in CkNames : csnap[b][c] = Gone) /\ JobGo(b, "unlive") /\ UNCHANGED <<csnap, diff, bfaults>>
              \/ Fails /\ JobGo(b, "unlive") /\ UNCHANGED <<csnap, diff>>
           /\ UNCHANGED <<sub, trash, mounts>>
Unlive(b) == /\ job[b].pc = "unlive" /\ JobGo(b, IF job[b].from = Gone THEN "idle" ELSE "clone")
             /\ \/ sub' = [sub EXCEPT ![b] = Gone] /\ UNCHANGED bfaults
                \/ Fails /\ UNCHANGED sub
             /\ mounts' = [mounts EXCEPT ![b] = IF sub'[b] = Gone THEN [i \in DOMAIN @ |-> "aside"] ELSE @]
             /\ UNCHANGED <<csnap, trash, diff>>

\* The snapshot is cloned; where the target is still there btrfs puts the
\* clone inside it and succeeds.  Then the fork point, then the mount.
CloneTree(t) == LET b == job[t].from IN
    /\ job[t].pc = "clone"
    /\ \/ csnap[b][job[t].c] # Gone /\ sub' = [sub EXCEPT ![t] = IF @ = Gone THEN csnap[b][job[t].c] ELSE @]
          /\ JobGo(t, "mark") /\ UNCHANGED bfaults
       \/ csnap[b][job[t].c] = Gone /\ JobGo(t, "idle") /\ UNCHANGED <<sub, bfaults>>
       \/ Fails /\ JobGo(t, "idle") /\ UNCHANGED sub
    /\ UNCHANGED <<csnap, trash, mounts, diff>>
MarkForkPoint(t) ==
    /\ job[t].pc = "mark"
    /\ \/ csnap[t][job[t].c] = Gone /\ csnap' = [csnap EXCEPT ![t][job[t].c] = sub[t]] /\ JobGo(t, "bind") /\ UNCHANGED bfaults
       \/ csnap[t][job[t].c] # Gone /\ JobGo(t, "idle") /\ UNCHANGED <<csnap, bfaults>>
       \/ Fails /\ JobGo(t, "idle") /\ UNCHANGED csnap
    /\ UNCHANGED <<sub, trash, mounts, diff>>
-----------------------------------------------------------------------------
(* changeset_since: any number at once, against everything else            *)
DiffGo(d, r) == diff' = [diff EXCEPT ![d] = r]
\* Every transient snapshot of the sandbox is swept, then one's own is taken.
SweepDiffs(d, b, c) == /\ diff[d].pc = "idle" /\ csnap[b][c] # Gone
                       /\ diff' = [e \in Diffs |-> IF e = d THEN [NoDiff EXCEPT !.pc = "snap", !.b = b, !.c = c]
                                                   ELSE IF diff[e].b = b THEN [diff[e] EXCEPT !.tmp = Gone] ELSE diff[e]]
                       /\ UNCHANGED <<sub, csnap, trash, mounts, job, bfaults>>
OwnTmp(d) == [diff EXCEPT ![d] = [@ EXCEPT !.pc = "send", !.tmp = sub[diff[d].b], !.seen = sub[diff[d].b]]]
SnapDiff(d) == /\ diff[d].pc = "snap"
               /\ \/ Exists(diff[d].b) /\ diff' = OwnTmp(d)
                  \/ ~Exists(diff[d].b) /\ DiffGo(d, NoDiff)
               /\ UNCHANGED <<sub, csnap, trash, mounts, job, bfaults>>
\* send | receive --dump fails without either end.
SendDiff(d) == /\ diff[d].pc = "send"
               /\ LET f == diff[d] IN DiffGo(d, IF f.tmp = Gone \/ csnap[f.b][f.c] = Gone THEN [NoDiff EXCEPT !.pc = "error"]
                                                ELSE [f EXCEPT !.pc = "answer", !.got = f.tmp])
               /\ UNCHANGED <<sub, csnap, trash, mounts, job, bfaults>>
EndDiff(d) == diff[d].pc \in {"answer", "error"} /\ DiffGo(d, NoDiff)
              /\ UNCHANGED <<sub, csnap, trash, mounts, job, bfaults>>

\* The daemon dies: jobs and calls are gone, the volumes and mounts stay.
CrashBtrfs == /\ Fails /\ \E b \in Boxes : ~Resting(b)
              /\ job' = [b \in Boxes |-> NoJob] /\ diff' = [d \in Diffs |-> NoDiff]
              /\ UNCHANGED <<sub, csnap, trash, mounts>>

BNext == \/ \E b \in Boxes : \/ \E x \in Bytes : WriteThrough(b, x)
                             \/ \E c \in CkNames : SnapshotTree(b, c) \/ DeleteSnapshot(b, c) \/ RestoreBox(b, c)
                             \/ Reclaim(b) \/ SwapOut(b) \/ SnapBack(b) \/ Bind(b) \/ Sweep(b) \/ DestroyBox(b)
                             \/ Wipe(b) \/ Unlive(b) \/ CloneTree(b) \/ MarkForkPoint(b)
                             \/ \E t \in Boxes, c \in CkNames : CloneBox(b, t, c)
         \/ \E d \in Diffs : \/ \E b \in Boxes, c \in CkNames : SweepDiffs(d, b, c)
                             \/ SnapDiff(d) \/ SendDiff(d) \/ EndDiff(d)
         \/ CrashBtrfs
BSpec == BInit /\ [][BNext]_bvars
-----------------------------------------------------------------------------
\* The store the flows implement: a sandbox's tree is its live subvolume, a
\* copy is a checkpoint snapshot; trash, mounts and transients are hidden.
Store == INSTANCE FsStore WITH Trees <- Boxes, Marks <- CkNames, Values <- Bytes, Absent <- Gone, tree <- sub, mark <- csnap

\* Restores, forks and destroys, failing or dying at any command, do to the
\* trees and checkpoints of all sandboxes only what the provider promises: no
\* checkpoint changes, no tree becomes a mixture, no fork touches its source.
StoreRefined == Store!StoreSpec

\* A restore about to report success has the checkpoint's tree at the live
\* path and mounted on top of the rootfs, over whatever an earlier failure or
\* crash left mounted there (as long as the checkpoint is kept).
RestoredIsServed == \A b \in Boxes : job[b].pc = "sweep" /\ job[b].from = b =>
                        /\ Served(b)
                        /\ csnap[b][job[b].c] \in {sub[b], Gone}

\* A changeset that answers compares the checkpoint with the tree at the
\* moment of its own transient snapshot, never another call's.
DiffIsOwn == \A d \in Diffs : diff[d].pc = "answer" => diff[d].got = diff[d].seen

\* A changeset of a sandbox that lives succeeds.  Not so when two overlap.
DiffsDoNotInterfere == \A d \in Diffs : diff[d].pc = "error" => bfaults > 0 \/ \E b \in Boxes : ~Resting(b) \/ ~Exists(b)

\* A sandbox at rest has its tree under its rootfs.  Not so after a restore
\* that failed or died in between.
RootfsIsServed == \A b \in Boxes : Resting(b) /\ Exists(b) => Served(b)

\* A fork has the tree of the checkpoint it is cloned from.  Not so when the
\* target's old subvolume could not be deleted.
ForkIsExact == \A t \in Boxes : job[t].pc = "mark" => csnap[job[t].from][job[t].c] \in {sub[t], Gone}
=============================================================================
