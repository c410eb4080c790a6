------------------------------ MODULE ImageChain ------------------------------
(***************************************************************************)
(* Who keeps a checkpoint's image tree on disk: the incremental chains of  *)
(* one source sandbox, the forks that borrow a chain through symlinks and  *)
(* pins (CrabSystem.fork_once, release_fork, prepare_source_destroy), the  *)
(* retention thread of LatestOnlyCheckpointManager, a user who deletes     *)
(* checkpoints, and the criu lazy-pages daemons that read an image after   *)
(* its restore has returned (RuncRuntime).                                 *)
(*                                                                         *)
(* Checkpoint ids are numbers in the order of creation.  The daemon's      *)
(* activity gate keeps a kill and a fork of one sandbox apart (Daemon).    *)
(***************************************************************************)
EXTENDS Integers, FiniteSets, FiniteSetsExt

CONSTANTS MaxCkpts,         \* checkpoints taken of the source
          Forks,            \* target sandbox ids
          MaxUserDeletes    \* delete_checkpoint calls of the user

Ids == 1 .. MaxCkpts

VARIABLES made, parent, man, img,   \* the source: ids, chains, manifests, trees
          src,                      \* up, killed or erased
          pins, chainpins,          \* _pinned_checkpoint_counts, _fork_chain_pins
          touched, ppc, pdel,       \* retention: wanted, step, ids to delete
          deletes, udel,            \* the user's deletions
          fpc, leaf, listed, cursor, pinned, shared,  \* fork_once of a target
          own, links,               \* a fork's copied and linked trees
          lazy                      \* a lazy-pages daemon on the source's image

sourceVars == <<made, parent, src>>
storeVars == <<man, img, deletes, udel>>
pinVars == <<pins, chainpins>>
pruneVars == <<touched, ppc, pdel>>
forkVars == <<fpc, leaf, listed, cursor, pinned, shared, own, links>>
cvars == <<sourceVars, storeVars, pinVars, pruneVars, forkVars, lazy>>

NoDaemon == [id |-> 0, registered |-> FALSE]

CInit ==
    /\ made = 0 /\ parent = [c \in Ids |-> 0] /\ man = {} /\ img = {} /\ src = "up"
    /\ pins = [c \in Ids |-> 0] /\ chainpins = {}
    /\ touched = FALSE /\ ppc = "idle" /\ pdel = {}
    /\ deletes = 0 /\ udel = {}
    /\ fpc = [f \in Forks |-> "none"] /\ leaf = [f \in Forks |-> 0]
    /\ listed = [f \in Forks |-> {}] /\ cursor = [f \in Forks |-> 0]
    /\ pinned = [f \in Forks |-> {}] /\ shared = [f \in Forks |-> FALSE]
    /\ own = [f \in Forks |-> {}] /\ links = [f \in Forks |-> {}]
    /\ lazy = NoDaemon

\* The ids CRIU visits from an image, following its parent symlinks.
Chain(c) ==
    LET chain[d \in 0 .. MaxCkpts] == IF d = 0 THEN {} ELSE {d} \cup chain[parent[d]]
    IN chain[c]

\* The ids found from c by parent_checkpoint_id while a manifest is in known.
Walk(c, known) ==
    LET walk[d \in 0 .. MaxCkpts] ==
          IF d = 0 THEN {} ELSE {d} \cup IF d \in known THEN walk[parent[d]] ELSE {}
    IN walk[c]

----------------------------------------------------------------------------
(* The source                                                              *)

\* A dump, full or on top of the last one (whose pre-dump must be there); the
\* completed checkpoint schedules retention.
CheckpointProcess ==
    /\ src = "up" /\ made < MaxCkpts
    /\ \E p \in {0, made} :
          /\ p # 0 => p \in img
          /\ parent' = [parent EXCEPT ![made + 1] = p]
    /\ made' = made + 1
    /\ man' = man \cup {made + 1} /\ img' = img \cup {made + 1}
    /\ touched' = TRUE
    /\ UNCHANGED <<src, deletes, udel, pinVars, ppc, pdel, forkVars, lazy>>

\* criu lazy-pages is started on an image; a newer restore ends the older one.
SpawnLazyPages(c) ==
    /\ src = "up" /\ c \in man /\ Chain(c) \subseteq img
    /\ lazy' = [id |-> c, registered |-> FALSE]
    /\ UNCHANGED <<sourceVars, storeVars, pinVars, pruneVars, forkVars>>

\* Its socket has appeared.
RegisterLazyPages ==
    /\ lazy.id # 0 /\ ~lazy.registered
    /\ lazy' = [lazy EXCEPT !.registered = TRUE]
    /\ UNCHANGED <<sourceVars, storeVars, pinVars, pruneVars, forkVars>>

\* All pages are in, the restore failed, or the socket never came.
LazyPagesExit ==
    /\ lazy.id # 0
    /\ lazy' = NoDaemon
    /\ UNCHANGED <<sourceVars, storeVars, pinVars, pruneVars, forkVars>>

\* runtime_image_path_in_use of a checkpoint's tree.
ImageInUse(c) == lazy.registered /\ lazy.id = c

----------------------------------------------------------------------------
(* Deleting a checkpoint                                                   *)

Descendants(c) == {d \in man \ {c} : c \in Walk(d, man)}

\* The manifest goes, its tree with it unless it is in use.
Forget(c, inUse) ==
    /\ man' = man \ {c}
    /\ img' = IF inUse THEN img ELSE img \ {c}

\* The user deletes a checkpoint nothing in the sandbox descends from.
DeleteCheckpoint(c) ==
    /\ c \in man /\ deletes < MaxUserDeletes
    /\ Descendants(c) = {}
    /\ deletes' = deletes + 1 /\ udel' = udel \cup {c}
    /\ Forget(c, ImageInUse(c))
    /\ UNCHANGED <<sourceVars, pinVars, pruneVars, forkVars, lazy>>

----------------------------------------------------------------------------
(* Retention                                                               *)

Pinned == {c \in Ids : pins[c] > 0}

Protected ==
    IF man = {} THEN {}
    ELSE UNION {Walk(c, man) : c \in {Max(man)} \cup Pinned}

\* _run_prune_task takes the sandbox's pin lock for the whole of its pass.
PruneStart ==
    /\ ppc = "idle" /\ touched
    /\ touched' = FALSE
    /\ ppc' = "check"
    /\ pdel' = man \ Protected
    /\ UNCHANGED <<sourceVars, storeVars, pinVars, forkVars, lazy>>

\* Newest first; a checkpoint with descendants ends the pass with an error.
\* Whether the tree is in use is asked before the tree is removed.
PruneCheck ==
    /\ ppc = "check"
    /\ IF pdel = {} \/ (Max(pdel) \in man /\ Descendants(Max(pdel)) # {})
       THEN ppc' = "idle" /\ pdel' = {}
       ELSE ppc' = (IF ImageInUse(Max(pdel)) THEN "defer" ELSE "remove") /\ pdel' = pdel
    /\ UNCHANGED <<sourceVars, storeVars, pinVars, touched, forkVars, lazy>>

PruneRemove ==
    /\ ppc \in {"defer", "remove"}
    /\ IF Max(pdel) \in man
       THEN Forget(Max(pdel), ppc = "defer")
       ELSE UNCHANGED <<man, img>>
    /\ pdel' = pdel \ {Max(pdel)}
    /\ ppc' = "check"
    /\ UNCHANGED <<sourceVars, deletes, udel, pinVars, touched, forkVars, lazy>>

PinLockFree == ppc = "idle"

----------------------------------------------------------------------------
(* fork_once                                                               *)

\* The manifests are read, the filesystem is cloned and the fork described; a
\* leaf with a parent is to be shared.
ForkBegin(f) ==
    /\ src = "up" /\ fpc[f] = "none"
    /\ \E c \in man :
          /\ leaf' = [leaf EXCEPT ![f] = c]
          /\ cursor' = [cursor EXCEPT ![f] = c]
          /\ fpc' = [fpc EXCEPT ![f] = IF parent[c] # 0 THEN "pin" ELSE "copy"]
    /\ listed' = [listed EXCEPT ![f] = man]
    /\ UNCHANGED <<sourceVars, storeVars, pinVars, pruneVars, pinned, shared, own, links, lazy>>

Unpin(S) == [c \in Ids |-> IF c \in S /\ pins[c] > 0 THEN pins[c] - 1 ELSE pins[c]]

\* pin_chain, one checkpoint: its manifest is looked for without the lock ...
PinLook(f) ==
    /\ fpc[f] = "pin"
    /\ IF cursor[f] \in man
       THEN fpc' = [fpc EXCEPT ![f] = "count"] /\ UNCHANGED <<pins, pinned>>
       ELSE \* the pins made so far are undone, and the fork copies
            /\ PinLockFree
            /\ pins' = Unpin(pinned[f])
            /\ pinned' = [pinned EXCEPT ![f] = {}]
            /\ fpc' = [fpc EXCEPT ![f] = "copy"]
    /\ UNCHANGED <<sourceVars, storeVars, chainpins, pruneVars, leaf, listed, cursor, shared,
                   own, links, lazy>>

\* ... and its count raised with it; a manifest that is gone then ends the walk.
PinCount(f) ==
    /\ fpc[f] = "count" /\ PinLockFree
    /\ pins' = [pins EXCEPT ![cursor[f]] = @ + 1]
    /\ pinned' = [pinned EXCEPT ![f] = @ \cup {cursor[f]}]
    /\ LET next == IF cursor[f] \in man THEN parent[cursor[f]] ELSE 0 IN
          /\ cursor' = [cursor EXCEPT ![f] = next]
          /\ fpc' = [fpc EXCEPT ![f] = IF next = 0 THEN "copy" ELSE "pin"]
          /\ shared' = [shared EXCEPT ![f] = (next = 0)]
          /\ chainpins' = IF next = 0 THEN chainpins \cup {f} ELSE chainpins
    /\ UNCHANGED <<sourceVars, storeVars, pruneVars, leaf, listed, own, links, lazy>>

\* release_fork; unpin_chain walks the manifests there are now.
ReleaseFork(f) ==
    /\ chainpins' = chainpins \ {f}
    /\ pins' = IF f \in chainpins THEN Unpin(Walk(leaf[f], man)) ELSE pins

\* A copy follows the parent symlinks, and fails on one that dangles.
Copied(f) == IF shared[f] THEN {leaf[f]} ELSE Chain(leaf[f])

\* The leaf's artifacts are copied; what is missing fails the fork, and
\* _cleanup_failed_fork undoes its bookkeeping.
CopyCheckpointArtifacts(f) ==
    /\ fpc[f] = "copy"
    /\ IF leaf[f] \in man /\ Copied(f) \subseteq img
       THEN /\ own' = [own EXCEPT ![f] = Copied(f)]
            /\ fpc' = [fpc EXCEPT ![f] = IF shared[f] THEN "link" ELSE "ready"]
            /\ cursor' = [cursor EXCEPT ![f] = parent[leaf[f]]]
            /\ UNCHANGED pinVars
       ELSE /\ PinLockFree
            /\ ReleaseFork(f)
            /\ fpc' = [fpc EXCEPT ![f] = "failed"]
            /\ UNCHANGED <<own, cursor>>
    /\ UNCHANGED <<sourceVars, storeVars, pruneVars, leaf, listed, pinned, shared, links, lazy>>

\* Symlinks for the ancestors the listing knew; a missing tree ends it, logged.
LinkAncestor(f) ==
    /\ fpc[f] = "link"
    /\ LET c == cursor[f]
           last == c = 0 \/ c \notin img
       IN /\ links' = IF last THEN links ELSE [links EXCEPT ![f] = @ \cup {c}]
          /\ cursor' = IF last THEN cursor
                       ELSE [cursor EXCEPT ![f] = IF c \in listed[f] THEN parent[c] ELSE 0]
          /\ fpc' = IF last THEN [fpc EXCEPT ![f] = "ready"] ELSE fpc
    /\ UNCHANGED <<sourceVars, storeVars, pinVars, pruneVars, leaf, listed, pinned, shared,
                   own, lazy>>

\* The fork is killed.
KillFork(f) ==
    /\ fpc[f] = "ready" /\ PinLockFree
    /\ ReleaseFork(f)
    /\ fpc' = [fpc EXCEPT ![f] = "gone"]
    /\ UNCHANGED <<sourceVars, storeVars, pruneVars, leaf, listed, cursor, pinned, shared,
                   own, links, lazy>>

SourceDestroyKeepsLinks ==
    /\ src = "up" /\ \A f \in Forks : fpc[f] \in {"none", "ready", "failed", "gone"}
    /\ src' = "killed"
    /\ lazy' = NoDaemon
    /\ UNCHANGED <<made, parent, storeVars, pinVars, pruneVars, forkVars>>

\* kill of the source: the pinned forks get their own copy of what they link.
PrepareSourceDestroy ==
    /\ src = "up" /\ \A f \in Forks : fpc[f] \in {"none", "ready", "failed", "gone"}
    /\ src' = "killed"
    /\ own' = [f \in Forks |-> IF f \in chainpins THEN own[f] \cup (links[f] \cap img) ELSE own[f]]
    /\ links' = [f \in Forks |-> IF f \in chainpins THEN links[f] \ img ELSE links[f]]
    /\ lazy' = NoDaemon
    /\ UNCHANGED <<made, parent, storeVars, pinVars, pruneVars, fpc, leaf, listed, cursor,
                   pinned, shared>>

\* Its owner then drops its storage, whatever is pinned.
DeleteAllCheckpoints ==
    /\ src = "killed"
    /\ src' = "erased" /\ man' = {} /\ img' = img \ man
    /\ UNCHANGED <<made, parent, deletes, udel, pinVars, pruneVars, forkVars, lazy>>

CNext ==
    \/ CheckpointProcess \/ RegisterLazyPages \/ LazyPagesExit
    \/ \E c \in Ids : SpawnLazyPages(c) \/ DeleteCheckpoint(c)
    \/ PruneStart \/ PruneCheck \/ PruneRemove
    \/ \E f \in Forks :
          \/ ForkBegin(f) \/ PinLook(f) \/ PinCount(f)
          \/ CopyCheckpointArtifacts(f) \/ LinkAncestor(f) \/ KillFork(f)
    \/ PrepareSourceDestroy \/ DeleteAllCheckpoints

CSpec == CInit /\ [][CNext]_cvars

----------------------------------------------------------------------------
(* Properties                                                              *)

\* The variables' types.
CTypeOK ==
    /\ man \subseteq 1 .. made /\ img \subseteq 1 .. made
    /\ pins \in [Ids -> 0 .. Cardinality(Forks)] /\ chainpins \subseteq Forks
    /\ ppc \in {"idle", "check", "defer", "remove"} /\ pdel \subseteq Ids
    /\ fpc \in [Forks -> {"none", "pin", "count", "copy", "link", "ready", "failed", "gone"}]
    /\ lazy.id \in 0 .. made

\* A fork that fork_once returned can be restored at any time: each image of
\* its leaf's chain is its own or a link to a tree that is still there,
\* whatever retention does and even after its source was killed and erased.
\* Only the user's own delete_checkpoint of an ancestor can break it.
ForkChainIntact ==
    \A f \in Forks : fpc[f] = "ready" /\ Chain(leaf[f]) \cap udel = {} =>
        Chain(leaf[f]) \subseteq own[f] \cup (links[f] \cap img)

\* No pin outlives the forks: with no fork alive or in progress every count is
\* back to zero, so retention can reclaim everything but the latest chain.
PinsBalanced ==
    udel = {} /\ src = "up" /\ (\A f \in Forks : fpc[f] \in {"none", "failed", "gone"}) =>
        \A c \in Ids : pins[c] = 0

\* "a fork that borrows the chain cannot have any ancestor's image bytes
\* pruned out from under its lazy-pages daemon or restore"
\* (policies.py 283-286), user deletions included.
PinnedIsKept ==
    \A f \in Forks : fpc[f] = "ready" =>
        Chain(leaf[f]) \subseteq own[f] \cup (links[f] \cap img)

\* The pages of a registered daemon stay on disk, ancestors included.
LazySourceKept ==
    lazy.registered => Chain(lazy.id) \subseteq img

\* "The next retention pass after the daemon exits will reclaim the tree"
\* (local.py 490-491): a tree nobody uses has a manifest retention can find.
DeferredIsReclaimed ==
    lazy = NoDaemon /\ ppc = "idle" => img \subseteq man

\* Forks find the images their chains need, and the pins that keep them are all
\* given back.
ImageChainsAreSound == ForkChainIntact /\ PinsBalanced

-----------------------------------------------------------------------------
(***************************************************************************)
(* The cache of exported image root filesystems                            *)
(* (integrations/sandboxes/runtime/image.py) and the shared base a launch  *)
(* builds from an entry (_ensure_shared_rootfs_base of runtime/runc.py).   *)
(*                                                                         *)
(* An entry is a directory with a lock file, the published tree, the       *)
(* staging trees of its exporters and a marker naming the Docker container *)
(* an export goes through.  Exporters of one image exclude each other with *)
(* flock on the lock file; an eviction takes the same lock without         *)
(* waiting, and then removes the whole directory, lock file included.      *)
(* flock locks an inode, so a lock file is identified by its inode number. *)
(*                                                                         *)
(* Docker and the file system are external: a command may fail, and        *)
(* rmtree deletes one name after the other in no fixed order.              *)
(***************************************************************************)

CONSTANTS
    Launches,      \* the launch threads of the daemon
    Images,        \* the image ids they export
    NoOne,         \* not a launch
    MaxStarts,     \* bound on the launches that begin
    MaxCrashes     \* bound on the daemon's crashes

VARIABLES
    ipc,       \* where each launch stands
    image,     \* the image it exports, NoOne outside a launch
    fd,        \* inode of the lock file it has open, 0 for none
    locked,    \* the launches that hold the flock of their fd
    victim,    \* the entry a capacity pass is removing
    vfd,       \* the lock file's inode it opened for that, held while it removes
    gcowner,   \* holder of .cache-gc.lock
    local,     \* the images Docker has
    present,   \* the images whose directory exists
    lockfile,  \* inode of .export.lock in the directory, 0 when it has none
    tried,     \* entries this capacity pass has come to already
    rootfs,    \* the published tree: "none", "whole" or "part"
    marked,    \* the images with an .export-container marker
    container, \* the launch whose export container exists under the image's name
    staging,   \* staging trees on disk: <<launch, image>>
    base,      \* the shared base: "none", "building", "whole" or "part"
    baseowner, \* holder of the base's lock file
    copied,    \* what a launch has read of the tree so far
    starts, crashes,
    evicted,   \* images an eviction has begun to remove (history)
    clobbered  \* images of which a live exporter lost its staging or container (history)

locks == <<fd, locked, vfd, gcowner, lockfile, tried>>
tree == <<local, present, rootfs, marked, container, staging>>
bases == <<base, baseowner, copied>>
history == <<starts, crashes, evicted, clobbered>>
icvars == <<ipc, image, victim, locks, tree, bases, history>>

ICInit ==
    /\ ipc = [p \in Launches |-> "idle"]
    /\ image = [p \in Launches |-> NoOne]
    /\ fd = [p \in Launches |-> 0]
    /\ locked = {}
    /\ victim = [p \in Launches |-> NoOne]
    /\ vfd = [p \in Launches |-> 0]
    /\ gcowner = NoOne
    /\ local = {}
    /\ present = {}
    /\ lockfile = [i \in Images |-> 0]
    /\ tried = [p \in Launches |-> {}]
    /\ rootfs = [i \in Images |-> "none"]
    /\ marked = {}
    /\ container = [i \in Images |-> NoOne]
    /\ staging = {}
    /\ base = [i \in Images |-> "none"]
    /\ baseowner = [i \in Images |-> NoOne]
    /\ copied = [p \in Launches |-> "none"]
    /\ starts = 0
    /\ crashes = 0
    /\ evicted = {}
    /\ clobbered = {}

(* Nobody holds the flock of inode n. *)
Free(n) ==
    /\ \A p \in locked : fd[p] # n
    /\ \A p \in Launches : vfd[p] # n

Goto(p, l) == ipc' = [ipc EXCEPT ![p] = l]

(* A launch that leaves the export, with or without a tree, drops its lock *)
(* by closing the file.                                                    *)
Unlock(p) ==
    /\ fd' = [fd EXCEPT ![p] = 0]
    /\ locked' = locked \ {p}

(* Opening a lock file creates it when the directory has none, under an    *)
(* inode number no open or linked file has.                                *)
Inode(i) ==
    LET used == {0} \cup {fd[p] : p \in Launches} \cup {vfd[p] : p \in Launches}
                    \cup {lockfile[j] : j \in Images} IN
    IF lockfile[i] = 0
    THEN CHOOSE n \in 1..Cardinality(used) : n \notin used
    ELSE lockfile[i]

OpenLockFile(i) == lockfile' = [lockfile EXCEPT ![i] = Inode(i)]

StartLaunch(p) ==
    /\ ipc[p] = "idle"
    /\ starts < MaxStarts
    /\ starts' = starts + 1
    /\ \E i \in Images : image' = [image EXCEPT ![p] = i]
    /\ Goto(p, "resolve")
    /\ UNCHANGED <<victim, locks, tree, bases, crashes, evicted, clobbered>>

(* resolve_image, under the reference's pull lock: the image is found or    *)
(* pulled; or the pull fails, or what it brought is refused (platform,      *)
(* size) and removed again; or the disk is short after the pull.            *)
ResolveImage(p) ==
    LET i == image[p] IN
    /\ ipc[p] = "resolve"
    /\ \/ /\ local' = local \cup {i}
          /\ Goto(p, "defaults") \/ Goto(p, "failed")
       \/ /\ Goto(p, "failed")
          /\ UNCHANGED local
    /\ UNCHANGED <<image, victim, locks, present, rootfs, marked, container,
                   staging, bases, history>>

(* inspect_image_runtime_defaults writes its file beside the tree, and the *)
(* export makes sure the directory is there.                               *)
InspectDefaults(p) ==
    /\ ipc[p] = "defaults"
    /\ \/ /\ present' = present \cup {image[p]}
          /\ Goto(p, "open")
       \/ /\ Goto(p, "failed")
          /\ UNCHANGED present
    /\ UNCHANGED <<image, victim, locks, local, rootfs, marked, container,
                   staging, bases, history>>

(* The directory may be gone by the time its lock file is opened. *)
OpenExportLock(p) ==
    LET i == image[p] IN
    /\ ipc[p] = "open"
    /\ IF i \in present
       THEN /\ OpenLockFile(i)
            /\ fd' = [fd EXCEPT ![p] = Inode(i)]
            /\ Goto(p, "flock")
       ELSE /\ Goto(p, "failed")
            /\ UNCHANGED <<fd, lockfile>>
    /\ UNCHANGED <<image, victim, locked, vfd, gcowner, tried, tree, bases, history>>

Flock(p) ==
    /\ ipc[p] = "flock"
    /\ Free(fd[p])
    /\ locked' = locked \cup {p}
    /\ Goto(p, "recover")
    /\ UNCHANGED <<image, victim, fd, vfd, gcowner, lockfile, tried, tree,
                   bases, history>>

(* Launches in the middle of exporting image i through a container and,    *)
(* later, a staging tree of their own.                                     *)
Exporting(i) ==
    {q \in Launches : /\ image[q] = i
                      /\ ipc[q] \in {"export", "capacity2", "gc2", "publish"}}

StagingIn(i) == {t \in staging : t[2] = i}

(* With the lock held, what an earlier exporter left is taken for stale:   *)
(* its staging trees and, when the marker is there, its container.         *)
RecoverStale(p) ==
    LET i == image[p] IN
    /\ ipc[p] = "recover"
    /\ staging' = staging \ StagingIn(i)
    /\ clobbered' = clobbered \cup
          {x \in {i} : \E q \in Exporting(x) : <<q, x>> \in staging \/ container[x] = q}
    /\ \/ /\ i \in marked
          /\ container' = [container EXCEPT ![i] = NoOne]
          /\ marked' = marked \ {i}
          /\ Goto(p, "lookup")
          /\ UNCHANGED <<fd, locked>>
       \/ /\ i \in marked                     \* docker rm failed
          /\ Unlock(p)
          /\ Goto(p, "failed")
          /\ UNCHANGED <<container, marked>>
       \/ /\ i \notin marked
          /\ Goto(p, "lookup")
          /\ UNCHANGED <<container, marked, fd, locked>>
    /\ UNCHANGED <<local, image, victim, vfd, gcowner, lockfile, tried, present,
                   rootfs, bases, starts, crashes, evicted>>

(* A published tree that passes _validate_image_rootfs, which looks for    *)
(* /bin/sh and a sleep only, is a hit; one that fails is removed.          *)
LookupRootfs(p) ==
    LET i == image[p] IN
    /\ ipc[p] = "lookup"
    /\ \/ /\ rootfs[i] \in {"whole", "part"}
          /\ Unlock(p)
          /\ Goto(p, "use")
          /\ UNCHANGED rootfs
       \/ /\ rootfs[i] \in {"none", "part"}
          /\ rootfs' = [rootfs EXCEPT ![i] = "none"]
          /\ Goto(p, "capacity")
          /\ UNCHANGED <<fd, locked>>
    /\ UNCHANGED <<local, image, victim, vfd, gcowner, lockfile, tried, present,
                   marked, container, staging, bases, history>>

(* _ensure_cache_capacity: before the export and again before publishing.  *)
TakeGcLock(p) ==
    /\ ipc[p] \in {"capacity", "capacity2"}
    /\ gcowner = NoOne
    /\ gcowner' = p
    /\ tried' = [tried EXCEPT ![p] = {}]
    /\ Goto(p, IF ipc[p] = "capacity" THEN "gc" ELSE "gc2")
    /\ UNCHANGED <<image, victim, fd, locked, vfd, lockfile, tree,
                   bases, history>>

(* Over the budget, the retention or the free-space reserve: an entry other *)
(* than the one being exported is removed when its lock is free.            *)
TryRemoveCacheEntry(p) ==
    /\ ipc[p] \in {"gc", "gc2"}
    /\ victim[p] = NoOne
    /\ \E v \in present \ (tried[p] \cup {image[p]}) :
          /\ tried' = [tried EXCEPT ![p] = @ \cup {v}]
          /\ OpenLockFile(v)
          /\ Free(Inode(v))
          /\ vfd' = [vfd EXCEPT ![p] = Inode(v)]
          /\ victim' = [victim EXCEPT ![p] = v]
          /\ evicted' = evicted \cup {v}
    /\ UNCHANGED <<ipc, image, fd, locked, gcowner, tree, bases, starts, crashes,
                   clobbered>>

(* One name of the directory is deleted. *)
Rmtree(p) ==
    LET v == victim[p] IN
    /\ v # NoOne
    /\ vfd[p] # 0
    /\ v \in present
    /\ \/ /\ lockfile[v] # 0
          /\ lockfile' = [lockfile EXCEPT ![v] = 0]
          /\ UNCHANGED <<rootfs, marked, staging, clobbered>>
       \/ /\ rootfs[v] # "none"
          /\ rootfs' = [rootfs EXCEPT ![v] = IF @ = "whole" THEN "part" ELSE "none"]
          /\ UNCHANGED <<lockfile, marked, staging, clobbered>>
       \/ /\ v \in marked
          /\ marked' = marked \ {v}
          /\ UNCHANGED <<lockfile, rootfs, staging, clobbered>>
       \/ \E t \in StagingIn(v) :
             /\ staging' = staging \ {t}
             /\ clobbered' = clobbered \cup {x \in {v} : t[1] \in Exporting(x)}
             /\ UNCHANGED <<lockfile, rootfs, marked>>
    /\ UNCHANGED <<local, ipc, image, victim, fd, locked, vfd, gcowner, tried, present,
                   container, bases, starts, crashes, evicted>>

(* rmdir, which fails when something was created meanwhile; either way the *)
(* pass goes on with the next entry.                                       *)
RmdirEntry(p) ==
    LET v == victim[p] IN
    /\ v # NoOne
    /\ vfd[p] # 0
    /\ \/ /\ lockfile[v] = 0
          /\ rootfs[v] = "none"
          /\ v \notin marked
          /\ StagingIn(v) = {}
          /\ present' = present \ {v}
       \/ UNCHANGED present
    /\ victim' = [victim EXCEPT ![p] = NoOne]
    /\ vfd' = [vfd EXCEPT ![p] = 0]
    /\ UNCHANGED <<local, ipc, image, fd, locked, gcowner, lockfile, tried, rootfs,
                   marked, container, staging, bases, history>>

(* The pass ends with enough room, or with ImageInsufficientDiskError. *)
CapacityDone(p) ==
    /\ ipc[p] \in {"gc", "gc2"}
    /\ victim[p] = NoOne
    /\ gcowner' = NoOne
    /\ tried' = [tried EXCEPT ![p] = {}]
    /\ \/ /\ Goto(p, IF ipc[p] = "gc" THEN "marker" ELSE "publish")
          /\ UNCHANGED <<fd, locked>>
       \/ /\ ipc[p] = "gc"
          /\ Unlock(p)
          /\ Goto(p, "failed")
       \/ /\ ipc[p] = "gc2"
          /\ Goto(p, "cleanup")
          /\ UNCHANGED <<fd, locked>>
    /\ UNCHANGED <<image, victim, vfd, lockfile, tree, bases, history>>

(* The marker is on disk before docker create, so that a crash in between  *)
(* leaves a name to clean up.                                              *)
WriteMarker(p) ==
    LET i == image[p] IN
    /\ ipc[p] = "marker"
    /\ IF i \in present
       THEN /\ marked' = marked \cup {i}
            /\ Goto(p, "create")
            /\ UNCHANGED <<fd, locked>>
       ELSE /\ Unlock(p)
            /\ Goto(p, "failed")
            /\ UNCHANGED marked
    /\ UNCHANGED <<local, image, victim, vfd, gcowner, lockfile, tried, present,
                   rootfs, container, staging, bases, history>>

(* docker create --name: a name in use is an error, and the error path     *)
(* removes the container of that name.                                     *)
DockerCreate(p) ==
    LET i == image[p] IN
    /\ ipc[p] = "create"
    /\ \/ /\ container[i] = NoOne
          /\ container' = [container EXCEPT ![i] = p]
          /\ Goto(p, "export")
          /\ UNCHANGED <<marked, fd, locked, clobbered>>
       \/ /\ container' = [container EXCEPT ![i] = NoOne]
          /\ marked' = marked \ {i}
          /\ clobbered' = clobbered \cup {x \in {i} : container[x] \in Exporting(x)}
          /\ Unlock(p)
          /\ Goto(p, "failed")
    /\ UNCHANGED <<local, image, victim, vfd, gcowner, lockfile, tried, present,
                   rootfs, staging, bases, starts, crashes, evicted>>

(* mkdtemp, docker export, extraction and validation of the staging tree. *)
ExportRootfs(p) ==
    LET i == image[p] IN
    /\ ipc[p] = "export"
    /\ \/ /\ i \in present
          /\ container[i] = p
          /\ staging' = staging \cup {<<p, i>>}
          /\ Goto(p, "capacity2")
       \/ /\ Goto(p, "cleanup")
          /\ UNCHANGED staging
    /\ UNCHANGED <<local, image, victim, locks, present, rootfs, marked, container,
                   bases, history>>

(* The staging tree becomes the published one by a rename. *)
PublishRootfs(p) ==
    LET i == image[p] IN
    /\ ipc[p] = "publish"
    /\ IF <<p, i>> \in staging
       THEN /\ rootfs' = [rootfs EXCEPT ![i] = "whole"]
            /\ Goto(p, "exported")
       ELSE /\ Goto(p, "cleanup")
            /\ UNCHANGED rootfs
    /\ UNCHANGED <<local, image, victim, locks, present, marked, container, staging,
                   bases, history>>

(* The finally block: the container of that name, the marker, the staging  *)
(* tree, the lock.  A failed docker rm keeps the marker and fails the      *)
(* export.                                                                 *)
FinishExport(p) ==
    LET i == image[p] IN
    /\ ipc[p] \in {"exported", "cleanup"}
    /\ \/ /\ container' = [container EXCEPT ![i] = NoOne]
          /\ marked' = marked \ {i}
          /\ clobbered' = clobbered \cup
                {x \in {i} : container[x] \in Exporting(x) \ {p}}
          /\ Goto(p, IF ipc[p] = "exported" THEN "use" ELSE "failed")
       \/ /\ container[i] # NoOne
          /\ Goto(p, "failed")
          /\ UNCHANGED <<container, marked, clobbered>>
    /\ staging' = staging \ {<<p, i>>}
    /\ Unlock(p)
    /\ UNCHANGED <<local, image, victim, vfd, gcowner, lockfile, tried, present,
                   rootfs, bases, starts, crashes, evicted>>

(* _ensure_shared_rootfs_base: a base with its snapshot is used as it is;  *)
(* one without is destroyed and built again, under the base's lock.        *)
EnsureSharedBase(p) ==
    LET i == image[p] IN
    /\ ipc[p] = "use"
    /\ baseowner[i] = NoOne
    /\ IF base[i] \in {"whole", "part"}
       THEN /\ Goto(p, "launched")
            /\ UNCHANGED <<base, baseowner>>
       ELSE /\ base' = [base EXCEPT ![i] = "building"]
            /\ baseowner' = [baseowner EXCEPT ![i] = p]
            /\ Goto(p, "copy")
    /\ UNCHANGED <<image, victim, locks, tree, copied, history>>

(* _copy_rootfs_paths refuses a missing source. *)
CopyBegin(p) ==
    LET i == image[p] IN
    /\ ipc[p] = "copy"
    /\ IF rootfs[i] = "none"
       THEN /\ Goto(p, "failed")
            /\ baseowner' = [baseowner EXCEPT ![i] = NoOne]
            /\ UNCHANGED copied
       ELSE /\ copied' = [copied EXCEPT ![p] = rootfs[i]]
            /\ Goto(p, "copying")
            /\ UNCHANGED baseowner
    /\ UNCHANGED <<image, victim, locks, tree, base, history>>

(* copytree lists each directory when it comes to it: a name deleted before *)
(* is silently missing from the copy, one deleted after is an error.        *)
CopyEnd(p) ==
    LET i == image[p]
        whole == copied[p] = "whole" /\ rootfs[i] = "whole" IN
    /\ ipc[p] = "copying"
    /\ \/ /\ copied' = [copied EXCEPT ![p] = IF whole THEN "whole" ELSE "part"]
          /\ Goto(p, "snapshot")
          /\ UNCHANGED baseowner
       \/ /\ ~whole
          /\ copied' = [copied EXCEPT ![p] = "none"]
          /\ Goto(p, "failed")
          /\ baseowner' = [baseowner EXCEPT ![i] = NoOne]
    /\ UNCHANGED <<image, victim, locks, tree, base, history>>

SnapshotBase(p) ==
    LET i == image[p] IN
    /\ ipc[p] = "snapshot"
    /\ base' = [base EXCEPT ![i] = copied[p]]
    /\ baseowner' = [baseowner EXCEPT ![i] = NoOne]
    /\ copied' = [copied EXCEPT ![p] = "none"]
    /\ Goto(p, "launched")
    /\ UNCHANGED <<image, victim, locks, tree, history>>

EndLaunch(p) ==
    /\ ipc[p] \in {"failed", "launched"}
    /\ Goto(p, "idle")
    /\ image' = [image EXCEPT ![p] = NoOne]
    /\ UNCHANGED <<victim, locks, tree, bases, history>>

(* The daemon dies: its files are closed, which frees its locks; what is on *)
(* disk, and the container, stay.                                           *)
DaemonDies ==
    /\ crashes < MaxCrashes
    /\ crashes' = crashes + 1
    /\ ipc' = [p \in Launches |-> "idle"]
    /\ image' = [p \in Launches |-> NoOne]
    /\ fd' = [p \in Launches |-> 0]
    /\ locked' = {}
    /\ victim' = [p \in Launches |-> NoOne]
    /\ vfd' = [p \in Launches |-> 0]
    /\ gcowner' = NoOne
    /\ tried' = [p \in Launches |-> {}]
    /\ baseowner' = [i \in Images |-> NoOne]
    /\ copied' = [p \in Launches |-> "none"]
    /\ UNCHANGED <<local, present, lockfile, rootfs, marked, container,
                   staging, base, starts, evicted, clobbered>>

LaunchStep(p) ==
    \/ StartLaunch(p) \/ ResolveImage(p) \/ InspectDefaults(p)
    \/ OpenExportLock(p) \/ Flock(p) \/ RecoverStale(p)
    \/ LookupRootfs(p) \/ TakeGcLock(p) \/ TryRemoveCacheEntry(p)
    \/ Rmtree(p) \/ RmdirEntry(p) \/ CapacityDone(p) \/ WriteMarker(p)
    \/ DockerCreate(p) \/ ExportRootfs(p) \/ PublishRootfs(p)
    \/ FinishExport(p) \/ EnsureSharedBase(p) \/ CopyBegin(p) \/ CopyEnd(p)
    \/ SnapshotBase(p) \/ EndLaunch(p)

ICNext == DaemonDies \/ \E p \in Launches : LaunchStep(p)

ICSpec == ICInit /\ [][ICNext]_icvars

-----------------------------------------------------------------------------
(* Trees, locks and owners have their types, the collector's lock is held  *)
(* only inside a capacity pass, and a tree lies in a directory.            *)
ICTypeOK ==
    /\ rootfs \in [Images -> {"none", "whole", "part"}]
    /\ base \in [Images -> {"none", "building", "whole", "part"}]
    /\ container \in [Images -> Launches \cup {NoOne}]
    /\ staging \subseteq Launches \X Images
    /\ \A p \in Launches : gcowner = p => ipc[p] \in {"gc", "gc2", "blocked"}
    /\ \A i \in Images : rootfs[i] # "none" => i \in present

(* "The export lock makes these paths stale: no live exporter for this     *)
(* image can still own them" (image.py:764-766): while an image's entry is *)
(* not chosen for eviction, nobody removes the staging tree or the export  *)
(* container of a launch that is still exporting it.                       *)
StaleIsStale == clobbered \subseteq evicted

(* The claim as the comment states it, evictions included. *)
StaleIsAlwaysStale == clobbered = {}

(* The shared base a launch goes on with holds the whole image: neither a  *)
(* crash in the middle of an export nor one in the middle of the base's    *)
(* own copy leaves a truncated tree behind for every later sandbox of that *)
(* image, as long as the cache entry is not evicted.                       *)
BaseIsWhole ==
    \A p \in Launches :
        ipc[p] = "launched" /\ image[p] \notin evicted => base[image[p]] = "whole"

(* Docker never holds an export container no marker names, so the one a    *)
(* crash leaves behind is found by the next export (image.py:773-784).     *)
ContainerIsMarked ==
    \A i \in Images : container[i] # NoOne => i \in marked \cup evicted

(* What launch p waits for is held by q. *)
WaitsFor(p, q) ==
    \/ ipc[p] = "flock" /\ ((q \in locked /\ fd[q] = fd[p]) \/ vfd[q] = fd[p])
    \/ ipc[p] \in {"capacity", "capacity2"} /\ gcowner = q
    \/ ipc[p] = "blocked" /\ q \in locked /\ fd[q] = lockfile[victim[p]]

(* Two launches never wait for each other: the pass that holds the         *)
(* collector's lock takes an entry's lock only without waiting, so the     *)
(* exporter that holds the entry and waits for the collector goes on.      *)
NoLockCycle == \A p, q \in Launches : ~(WaitsFor(p, q) /\ WaitsFor(q, p))

(* "Evict inactive exported-rootfs entries under one global GC lock"       *)
(* (image.py:1075): an entry whose tree a launch is still going to copy    *)
(* from is not removed.                                                    *)
EvictsInactive ==
    \A p, q \in Launches :
        vfd[p] # 0 /\ ipc[q] \in {"use", "copy", "copying"} => image[q] # victim[p]

(* Launches share a cache entry safely, through crashes and evictions: the *)
(* base is whole, recovery removes only what is stale and finds all of it, *)
(* and no two launches wait for each other.                                *)
CacheIsSound == ICTypeOK /\ BaseIsWhole /\ StaleIsStale /\ ContainerIsMarked /\ NoLockCycle

(* Images are there while something needs them: those of checkpoints for   *)
(* restores and forks, those of the launch cache for launches.             *)
ImagesAreSound == ImageChainsAreSound /\ CacheIsSound
=============================================================================
