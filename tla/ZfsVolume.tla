----------------------------- MODULE ZfsVolume ------------------------------
(***************************************************************************)
(* ZfsFilesystemProvider (src/crab/runtime/zfs_provider.py) under the      *)
(* system operations that drive it: a source sandbox and its forks, each a *)
(* dataset with a line of snapshots and, for a clone, an origin.  zfs is   *)
(* external: a snapshot with clones cannot be destroyed, rollback -r       *)
(* destroys the later snapshots, promote moves the origin's older          *)
(* snapshots onto the clone and turns the dependency round.                *)
(***************************************************************************)
EXTENDS Integers, Sequences, SequencesExt, FiniteSets

CONSTANTS Source, ForkVols,   \* dataset names; ForkVols a sequence, in sorted order
          Blobs, Nothing,     \* contents of a tree, and no content
          MaxZfsCkpts,        \* bound: checkpoints taken
          PromoteTries,       \* _DATASET_PROMOTE_CONFLICT_RETRIES
          MaxZfsFaults        \* bound: commands that fail for no reason here

Vols == {Source} \cup Range(ForkVols)
Cks == 1 .. MaxZfsCkpts
NoOrigin == <<>>
NoManifests == [c \in Cks |-> Nothing]
NoDs == [up |-> FALSE, live |-> Nothing, origin |-> NoOrigin, snaps |-> <<>>]

VARIABLES
    ds,        \* the pool: dataset -> live content, origin, snapshots oldest first
    zkept,      \* storage: (dataset, checkpoint) -> content its manifest stands for
    zck,       \* checkpoints taken
    zop,       \* the multi-command operation under way
    zanswer,   \* history: what the restore just made reported, and of what
    dropped,   \* history: manifests whose snapshot a rollback or a swap destroyed, or that were
               \* replicated for a swap that has not put the snapshot there
    zfaults
zvars == <<ds, zkept, zck, zop, zanswer, dropped, zfaults>>

NoOp == [pc |-> "idle", v |-> Source, t |-> Source, c |-> 0, tries |-> 0]
NoAnswer == [v |-> Source, c |-> 0, did |-> "none"]
ZInit == /\ \E b \in Blobs : ds = [v \in Vols |-> IF v = Source THEN [NoDs EXCEPT !.up = TRUE, !.live = b] ELSE NoDs]
         /\ zkept = [v \in Vols |-> NoManifests] /\ zck = 0 /\ zop = NoOp /\ zanswer = NoAnswer /\ dropped = {} /\ zfaults = 0

ZGo(p) == zop' = IF p = "idle" THEN NoOp ELSE [zop EXCEPT !.pc = p, !.tries = 0]
Idle == zop.pc = "idle"
CommandFails == zfaults < MaxZfsFaults /\ zfaults' = zfaults + 1
-----------------------------------------------------------------------------
(* zfs itself                                                              *)
Named(v) == {ds[v].snaps[i].c : i \in DOMAIN ds[v].snaps}
Position(v, c) == CHOOSE i \in DOMAIN ds[v].snaps : ds[v].snaps[i].c = c
HasClones(v, c) == \E w \in Vols : ds[w].up /\ ds[w].origin = <<v, c>>
AlwaysCan(v) == TRUE
CanDestroy(v) == \A c \in Named(v) : \A w \in Vols \ {v} : ~(ds[w].up /\ ds[w].origin = <<v, c>>)
Snap(d, c) == [d EXCEPT !.snaps = Append(@, [c |-> c, blob |-> d.live])]
CloneOf(v, c) == [up |-> TRUE, live |-> ds[v].snaps[Position(v, c)].blob, origin |-> <<v, c>>, snaps |-> <<>>]
WithoutSnap(d, c) == [d EXCEPT !.snaps = SelectSeq(@, LAMBDA s : s.c # c)]
\* The snapshots promote would move, those of them whose name v has too, and
\* the pool after it.
Moving(v) == LET o == ds[v].origin IN SubSeq(ds[o[1]].snaps, 1, Position(o[1], o[2]))
Clashing(v) == {s.c : s \in Range(Moving(v))} \cap Named(v)
Promoted(v) ==
    LET o == ds[v].origin
        names == {s.c : s \in Range(Moving(v))}
        Turned(w) == IF ds[w].origin # NoOrigin /\ ds[w].origin[1] = o[1] /\ ds[w].origin[2] \in names
                     THEN [ds[w] EXCEPT !.origin[1] = v] ELSE ds[w]
    IN [w \in Vols |->
          IF w = v THEN [ds[v] EXCEPT !.snaps = Moving(v) \o @, !.origin = ds[o[1]].origin]
          ELSE IF w = o[1] THEN [ds[w] EXCEPT !.origin = <<v, o[2]>>,
                                              !.snaps = SubSeq(@, Len(Moving(v)) + 1, Len(@))]
          ELSE Turned(w)]
-----------------------------------------------------------------------------
(* The provider's single commands                                          *)
\* The sandbox's processes write.
WriteTree(v, b) == /\ ds[v].up /\ ds[v].live # b /\ ds' = [ds EXCEPT ![v].live = b]
                   /\ zanswer' = NoAnswer /\ UNCHANGED <<zkept, zck, zop, zfaults, dropped>>

\* checkpoint_filesystem: a snapshot named after the checkpoint.
CheckpointTree(v) ==
    /\ ds[v].up /\ Idle /\ zck < MaxZfsCkpts /\ zck' = zck + 1
    /\ ds' = [ds EXCEPT ![v] = Snap(@, zck + 1)] /\ zkept' = [zkept EXCEPT ![v][zck + 1] = ds[v].live]
    /\ zanswer' = NoAnswer /\ UNCHANGED <<zop, zfaults, dropped>>

\* discard_partial_checkpoint: the other step of a composite checkpoint
\* failed, so the snapshot goes and no manifest stands for it.
DiscardPartial(v) == /\ ds[v].up /\ Idle /\ zck < MaxZfsCkpts /\ CommandFails /\ zck' = zck + 1
                     /\ zanswer' = NoAnswer /\ UNCHANGED <<ds, zkept, zop, dropped>>

\* restore_filesystem: skipped for a clone of the checkpoint's snapshot, else
\* rollback -r, which fails without the snapshot or over a later one's clones.
EndsWith(v, c) == ds[v].origin # NoOrigin /\ ds[v].origin[2] = c
RollbackKeepsLive(v, c) == [ds[v] EXCEPT !.snaps = SubSeq(@, 1, Position(v, c))]
RollbackPastIt(v, c) == LET i == Position(v, c) IN [ds[v] EXCEPT !.live = ds[v].snaps[i].blob, !.snaps = SubSeq(@, 1, i - 1)]
Rollback(v, c) == LET i == Position(v, c) IN [ds[v] EXCEPT !.live = ds[v].snaps[i].blob, !.snaps = SubSeq(@, 1, i)]
CanRollback(v, c) == c \in Named(v) /\ \A i \in Position(v, c) + 1 .. Len(ds[v].snaps) : ~HasClones(v, ds[v].snaps[i].c)
RestoreTree(v, c) ==
    /\ ds[v].up /\ Idle /\ zkept[v][c] # Nothing
    /\ \/ EndsWith(v, c) /\ zanswer' = [v |-> v, c |-> c, did |-> "skipped"] /\ UNCHANGED <<ds, dropped>>
       \/ /\ ~EndsWith(v, c) /\ CanRollback(v, c) /\ ds' = [ds EXCEPT ![v] = Rollback(v, c)]
          /\ zanswer' = [v |-> v, c |-> c, did |-> "rolled"] /\ dropped' = dropped \cup ({v} \X {k \in Cks : k > c})
       \/ ~EndsWith(v, c) /\ ~CanRollback(v, c) /\ zanswer' = NoAnswer /\ UNCHANGED <<ds, dropped>>
    /\ UNCHANGED <<zkept, zck, zop, zfaults>>

\* Retention drops a manifest and its snapshot (destroy_snapshot_ref), which
\* zfs refuses, with a warning only, while the snapshot has clones.
RetireTree(v, c) ==
    /\ Idle /\ zkept[v][c] # Nothing /\ zkept' = [zkept EXCEPT ![v][c] = Nothing]
    /\ ds' = IF ds[v].up /\ c \in Named(v) /\ ~HasClones(v, c) THEN [ds EXCEPT ![v] = WithoutSnap(@, c)] ELSE ds
    /\ zanswer' = NoAnswer /\ UNCHANGED <<zck, zop, zfaults, dropped>>
-----------------------------------------------------------------------------
(* Forking: clone, then a snapshot of the fork point on the fork itself    *)
ForkTree(t, c) ==
    /\ Idle /\ ds[Source].up /\ ~ds[t].up /\ zkept[Source][c] # Nothing /\ c \in Named(Source) /\ t # Source
    /\ zkept[t] = NoManifests
    /\ ds' = [ds EXCEPT ![t] = Snap(CloneOf(Source, c), c)] /\ zkept' = [zkept EXCEPT ![t][c] = zkept[Source][c]]
    /\ zanswer' = NoAnswer /\ UNCHANGED <<zck, zop, zfaults, dropped>>

(* promote_filesystem_dataset: a name both lines have is destroyed on the  *)
(* clone and the promotion retried                                         *)
Children == SelectSeq(ForkVols, LAMBDA w : ds[w].up)
PromoteStep(v, next, raised) ==
    \/ /\ ds[v].origin # NoOrigin /\ Clashing(v) = {} /\ ds' = Promoted(v) /\ ZGo(next) /\ UNCHANGED zfaults
    \/ /\ ds[v].origin # NoOrigin
       /\ \E c \in Clashing(v) : ~HasClones(v, c) /\ ds' = [ds EXCEPT ![v] = WithoutSnap(@, c)]
       /\ zop' = [zop EXCEPT !.tries = @ + 1, !.pc = IF zop.tries + 1 < PromoteTries THEN @ ELSE raised]
       /\ UNCHANGED zfaults
    \/ /\ ds[v].origin # NoOrigin /\ \E c \in Clashing(v) : HasClones(v, c)
       /\ ZGo(raised) /\ UNCHANGED <<ds, zfaults>>
    \/ ds[v].origin = NoOrigin /\ ZGo(next) /\ UNCHANGED <<ds, zfaults>>
    \/ CommandFails /\ ZGo(raised) /\ UNCHANGED ds
\* destroy_filesystem_dataset: busy is retried, anything else raises.
DestroyStep(v, next, raised) ==
    \/ ds[v].up /\ CanDestroy(v) /\ ds' = [ds EXCEPT ![v] = NoDs] /\ ZGo(next) /\ UNCHANGED zfaults
    \/ ~ds[v].up /\ ZGo(next) /\ UNCHANGED <<ds, zfaults>>
    \/ ds[v].up /\ ~CanDestroy(v) /\ ZGo(raised) /\ UNCHANGED <<ds, zfaults>>
    \/ CommandFails /\ ZGo(raised) /\ UNCHANGED ds

(* Destroying the source: prepare_source_destroy promotes the first of its *)
(* live forks (and goes on when that raises)                               *)
BeginDestroy == /\ Idle /\ ds[Source].up /\ zop' = [NoOp EXCEPT !.pc = IF Children = <<>> THEN "drop" ELSE "detach"]
                /\ zanswer' = NoAnswer /\ UNCHANGED <<ds, zkept, zck, zfaults, dropped>>
PromoteFirst == /\ zop.pc = "detach" /\ PromoteStep(Head(Children), "drop", "drop") /\ zanswer' = NoAnswer /\ UNCHANGED <<zkept, zck, dropped>>
DropSource == /\ zop.pc = "drop" /\ DestroyStep(Source, "dead", "stuck") /\ zanswer' = NoAnswer /\ UNCHANGED <<zkept, zck, dropped>>
\* The manifests of a destroyed sandbox go with it.
EraseSource == /\ zop.pc = "dead" /\ zkept' = [zkept EXCEPT ![Source] = NoManifests] /\ ZGo("idle")
               /\ zanswer' = NoAnswer /\ UNCHANGED <<ds, zck, zfaults, dropped>>
\* A fork that is killed has no clones of its own here.
DropFork(t) == /\ Idle /\ t # Source /\ ds[t].up /\ CanDestroy(t)
               /\ ds' = [ds EXCEPT ![t] = NoDs] /\ zkept' = [zkept EXCEPT ![t] = NoManifests]
               /\ zanswer' = NoAnswer /\ UNCHANGED <<zck, zop, zfaults, dropped>>

(* _promote_fork_onto_source: the fork is checkpointed and the checkpoint  *)
(* replicated, the source's dataset gives way to a clone of it             *)
BeginSwap(t) == /\ Idle /\ t # Source /\ ds[t].up /\ ds[Source].up /\ zck < MaxZfsCkpts
                /\ zck' = zck + 1 /\ ds' = [ds EXCEPT ![t] = Snap(@, zck + 1)]
                /\ zkept' = [zkept EXCEPT ![t][zck + 1] = ds[t].live, ![Source][zck + 1] = ds[t].live]
                /\ zop' = [NoOp EXCEPT !.pc = "lift", !.v = t, !.c = zck + 1] 
                /\ dropped' = dropped \cup {<<Source, zck + 1>>} /\ zanswer' = NoAnswer /\ UNCHANGED zfaults
LiftFork == zop.pc = "lift" /\ PromoteStep(zop.v, "vacate", "failed") /\ zanswer' = NoAnswer /\ UNCHANGED <<zkept, zck, dropped>>
VacateSource == /\ zop.pc = "vacate" /\ DestroyStep(Source, "clone", "failed") /\ zanswer' = NoAnswer
                /\ dropped' = IF zop'.pc = "clone" THEN dropped \cup ({Source} \X Named(Source)) ELSE dropped
                /\ UNCHANGED <<zkept, zck>>
CloneBack == /\ zop.pc = "clone"
             /\ \/ /\ ds' = [ds EXCEPT ![Source] = Snap(CloneOf(zop.v, zop.c), zop.c)] /\ ZGo("settle")
                   /\ dropped' = dropped \ {<<Source, zop.c>>} /\ UNCHANGED zfaults
                \/ CommandFails /\ ZGo("failed") /\ UNCHANGED <<ds, dropped>>
             /\ zanswer' = NoAnswer /\ UNCHANGED <<zkept, zck>>
\* The source is promoted so that the fork can go; then the fork is destroyed.
SettleSource == zop.pc = "settle" /\ PromoteStep(Source, "swapped", "idle") /\ zanswer' = NoAnswer /\ UNCHANGED <<zkept, zck, dropped>>
EndSwap == /\ zop.pc = "swapped" /\ DestroyStep(zop.v, "idle", "failed")
           /\ zkept' = IF zop'.pc = "idle" THEN [zkept EXCEPT ![zop.v] = NoManifests] ELSE zkept
           /\ zanswer' = NoAnswer /\ UNCHANGED <<zck, dropped>>
\* A failed operation is reported; nothing is undone.
ReportFailure == zop.pc \in {"failed", "stuck"} /\ ZGo("idle") /\ zanswer' = NoAnswer /\ UNCHANGED <<ds, zkept, zck, zfaults, dropped>>

ZNext == \/ \E v \in Vols : (\E b \in Blobs : WriteTree(v, b)) \/ CheckpointTree(v) \/ DiscardPartial(v)
         \/ \E v \in Vols, c \in Cks : RestoreTree(v, c) \/ RetireTree(v, c) \/ ForkTree(v, c)
         \/ \E v \in Vols : DropFork(v) \/ BeginSwap(v)
         \/ BeginDestroy \/ PromoteFirst \/ DropSource \/ EraseSource
         \/ LiftFork \/ VacateSource \/ CloneBack \/ SettleSource \/ EndSwap \/ ReportFailure
ZSpec == ZInit /\ [][ZNext]_zvars
-----------------------------------------------------------------------------
\* Types; every origin is a snapshot that exists, a dataset's names are distinct.
ZTypeOK == /\ \A v \in Vols : /\ ds[v].live \in Blobs \cup {Nothing}
                              /\ ds[v].origin # NoOrigin => ds[ds[v].origin[1]].up /\ ds[v].origin[2] \in Named(ds[v].origin[1])
                              /\ Cardinality(Named(v)) = Len(ds[v].snaps)
           /\ zck \in 0 .. MaxZfsCkpts /\ zop.tries \in 0 .. PromoteTries

\* A restore that ran its rollback leaves exactly the tree the checkpoint's
\* manifest stands for, whatever promotions moved the snapshots about before.
RollbackIsExact == zanswer.did = "rolled" => ds[zanswer.v].live = zkept[zanswer.v][zanswer.c]

\* A checkpoint storage keeps has its content in a snapshot of the pool, on
\* its own dataset or on the one promoted over it, through forks, swaps that
\* fail half way and the death of either side.
SnapshotsSurvive ==
    Idle /\ zfaults = 0 => \A v \in Vols, c \in Cks :
        ds[v].up /\ zkept[v][c] # Nothing /\ <<v, c>> \notin dropped
            => \E w \in Vols : ds[w].up /\ [c |-> c, blob |-> zkept[v][c]] \in Range(ds[w].snaps)

\* A restore that succeeds leaves the checkpoint's tree.  Not so for a fork
\* restored to its fork point after it has written.
RestoreIsExact == zanswer.did # "none" => ds[zanswer.v].live = zkept[zanswer.v][zanswer.c]

\* With one fork promoted, destroying the source succeeds.  Not so with a
\* sibling cloned from a later snapshot.
SourceCanBeDestroyed == zop.pc = "stuck" => zfaults > 0

\* Every manifest of a live sandbox can be restored.  Not so after a rollback
\* to an older one.
ManifestsRestorable == Idle => \A v \in Vols, c \in Cks : ds[v].up /\ zkept[v][c] # Nothing => EndsWith(v, c) \/ c \in Named(v)
=============================================================================
