---------------------------- MODULE Checkpoints ----------------------------
(***************************************************************************)
(* The checkpoints of one sandbox: manual, requested and automatic         *)
(* checkpoints, restores and deletions by a client that does one thing at  *)
(* a time (CrabSystem, crab/system.py), the incremental process chain of   *)
(* the scheduler (crab/scheduler.py), the composite workers, the change    *)
(* signal of the host inspector, and the retention thread that prunes      *)
(* beside all of them (crab/storage/policies.py).                          *)
(*                                                                         *)
(* The state of the sandbox is two version numbers, of its processes (p)   *)
(* and of its filesystem (f); a write makes a fresh one.  Checkpoint ids   *)
(* are numbers in the order of created_at, which is the order of           *)
(* list_checkpoints, and None is the missing id.                           *)
(***************************************************************************)
EXTENDS Integers, FiniteSets, FiniteSetsExt

CONSTANTS MaxCheckpoints,  \* bound: manifests written
          MaxWrites,       \* bound: writes of the sandbox
          MaxChain,        \* the smaller of full_process_checkpoint_interval
                           \* and max_process_chain_length
          Retentions,        \* the retention policies considered
          RollbackRetentions,        \* those under which the client restores points but the
                                     \* newest, and deletes checkpoints
          AutoRetentions        \* those under which there are automatic checkpoints

ASSUME CheckpointsAssumption ==
    /\ MaxCheckpoints \in Nat /\ MaxWrites \in Nat /\ MaxChain \in Nat \ {0}
    /\ RollbackRetentions \subseteq Retentions /\ AutoRetentions \subseteq Retentions
    /\ Retentions \subseteq {"keep_all", "latest_only", "delete_after_restore"}

VARIABLES retention,        \* the retention policy
          sandbox,       \* running, paused, or down
          state,          \* the versions the sandbox is at
          nwrites,        \* how many writes it has made
          base,          \* the process image the live processes descend from
          dirty,         \* process_changed and filesystem_changed on the host
          pendingReset,  \* _pending_reset_at: a reset the next inspect retries
          masked,        \* history: has a reset wiped a change no image holds?
          stored,        \* the ids with a manifest on disk
          man,           \* the manifests written so far
          ids,           \* how many those are
          sources,        \* _current_restore_sources: the ids of the two sources
          lastProc,      \* scheduler: the last process checkpoint
          chain,         \* scheduler: the length of its incremental chain
          op,            \* the operation of the client
          prune,         \* retention: none, due, running or idle
          again,         \* retention: _retention_dirty while the prune runs
          victims        \* what the running prune has still to delete

cvars == <<retention, sandbox, state, nwrites, base, dirty, pendingReset, masked,
           stored, man, ids, sources, lastProc, chain, op, prune, again, victims>>

NoId == 0
CkptIds == 1..MaxCheckpoints
Id == CkptIds \cup {NoId}
Versions == [p : -1..MaxWrites, f : 0..MaxWrites]
Corrupt == -1     \* the version of a process image put on the wrong parent
NoneDirty == [p |-> FALSE, f |-> FALSE]
Start == [p |-> 0, f |-> 0]
Sources == [cur : Id, p : Id, f : Id]
NoSources == [cur |-> NoId, p |-> NoId, f |-> NoId]

\* A manifest: which artifacts it has, the restore sources a logical one
\* names, the parent of an incremental one, whether it left a pre-dump, the
\* versions in its images, and, as history, the versions when it was taken.
Manifest == [p : BOOLEAN, f : BOOLEAN, logical : BOOLEAN, sources : Sources,
             parent : Id, pre : BOOLEAN, image : Versions, at : Versions]
Blank == [p |-> FALSE, f |-> FALSE, logical |-> FALSE, sources |-> NoSources,
          parent |-> NoId, pre |-> FALSE, image |-> Start, at |-> Start]

NoTask == [kind |-> "none", pc |-> "idle", keep |-> TRUE, prior |-> NoSources,
           job |-> Blank, target |-> NoId]

CInit == /\ retention \in Retentions
         /\ sandbox = "running" /\ state = Start /\ nwrites = 0 /\ base = NoId
         /\ dirty = NoneDirty /\ pendingReset = FALSE /\ masked = FALSE
         /\ stored = {} /\ man = [i \in CkptIds |-> Blank] /\ ids = 0
         /\ sources = NoSources /\ lastProc = NoId /\ chain = 0
         /\ op = NoTask /\ prune = "none" /\ again = FALSE /\ victims = {}

-----------------------------------------------------------------------------
(* What a manifest on disk restores to *)

\* The newest checkpoint up to c that satisfies a predicate.
Latest(S) == IF S = {} THEN NoId ELSE Max(S)

\* resolve_restore_manifest: the sources a logical manifest names, or else the
\* latest artifacts up to the manifest.
Resolve(c) ==
    IF man[c].logical THEN man[c].sources
    ELSE [cur |-> c, p |-> Latest({i \in stored : i <= c /\ man[i].p}),
                     f |-> Latest({i \in stored : i <= c /\ man[i].f})]

\* It raises when a source that a logical manifest names is gone.
Loadable(c) == c \in stored /\ (man[c].logical => {Resolve(c).p, Resolve(c).f} \subseteq stored)

\* The chain of parents of c, up to a root or to a manifest that is missing.
Chain(c) ==
    LET up[i \in Id] == IF i = NoId THEN {}
                        ELSE {i} \cup (IF i \in stored THEN up[man[i].parent] ELSE {})
    IN up[c]

\* _validate_incremental_chain and _stored_process_chain_length walk it.
ChainIntact(c) == Chain(c) \subseteq stored
ChainLength(c) == Cardinality(Chain(c)) - 1

Restorable(c) == /\ Loadable(c) /\ Resolve(c).p # NoId /\ Resolve(c).f # NoId
                 /\ ChainIntact(Resolve(c).p)

Content(s) == [p |-> man[s.p].image.p, f |-> man[s.f].image.f]

\* descendants: the manifests that name c as their parent or as a source.
Dependents(c) == {d \in stored \ {c} : c \in {man[d].parent, man[d].sources.p, man[d].sources.f}}

-----------------------------------------------------------------------------
(* The sandbox *)

\* A process of the sandbox changes its memory or a file, and the host sees it.
Write(k) == /\ sandbox = "running"
            /\ nwrites < MaxWrites /\ nwrites' = nwrites + 1
            /\ state' = [state EXCEPT ![k] = nwrites']
            /\ dirty' = [dirty EXCEPT ![k] = TRUE]
            /\ UNCHANGED <<retention, sandbox, base, pendingReset, masked, stored, man, ids, sources,
                           lastProc, chain, op, prune, again, victims>>

-----------------------------------------------------------------------------
(* Retention *)

\* handle_checkpoint_complete and _schedule_prune.
SchedulePrune ==
    /\ prune' = IF retention = "latest_only" /\ prune # "running" THEN "due" ELSE prune
    /\ again' = (again \/ (retention = "latest_only" /\ prune = "running"))

\* _protected_checkpoint_ids: the latest checkpoint, process image and
\* filesystem image, what the latest restores from, and all their ancestors.
ProtectedIds ==
       LET newest == Latest(stored)
           deps == IF Loadable(newest) THEN {Resolve(newest).p, Resolve(newest).f} ELSE {}
           roots == deps \cup {newest, Latest({i \in stored : man[i].p}), Latest({i \in stored : man[i].f})}
       IN UNION {Chain(i) : i \in roots}

StartPrune == /\ prune = "due" /\ prune' = "running"
              /\ victims' = stored \ ProtectedIds
              /\ UNCHANGED <<retention, sandbox, state, nwrites, base, dirty, pendingReset, masked, stored, man, ids,
                             sources, lastProc, chain, op, again>>

\* Manifests and artifacts go.
Delete(S) == /\ stored' = stored \ S
             /\ man' = [i \in CkptIds |-> IF i \in S THEN Blank ELSE man[i]]

\* _prune_unprotected deletes newest first; delete_checkpoint refuses a
\* checkpoint with dependents, and the exception ends the prune.
DeleteVictim == /\ prune = "running" /\ victims # {}
                /\ LET c == Max(victims)
                   IN IF Dependents(c) = {}
                      THEN Delete({c}) /\ victims' = victims \ {c}
                      ELSE victims' = {} /\ UNCHANGED <<stored, man>>
                /\ UNCHANGED <<retention, sandbox, state, nwrites, base, dirty, pendingReset, masked, ids, sources,
                               lastProc, chain, op, prune, again>>

EndPrune == /\ prune = "running" /\ victims = {}
            /\ prune' = (IF again THEN "due" ELSE "idle") /\ again' = FALSE
            /\ UNCHANGED <<retention, sandbox, state, nwrites, base, dirty, pendingReset, masked, stored, man, ids, sources,
                           lastProc, chain, op, victims>>

Retention == StartPrune \/ DeleteVictim \/ EndPrune

-----------------------------------------------------------------------------
(* Checkpoints *)

\* _latest_restore_sources: the cursor, while all it names is on disk.
CursorResolves == sources.p # NoId /\ {sources.cur, sources.p, sources.f} \subseteq stored

\* A reset of the inspector would wipe a change since the cursor.
ResetMasks == CursorResolves /\ state # Content(sources)

\* checkpoint_requested and checkpoint_if_due read the cursor, and mark it
\* incomplete when it does not resolve.
BeginFlow(kind, keep) ==
    /\ op = NoTask /\ ids < MaxCheckpoints /\ (kind = "auto" => retention \in AutoRetentions)
    /\ op' = [NoTask EXCEPT !.kind = kind, !.pc = "query", !.keep = keep,
                            !.prior = IF CursorResolves THEN sources ELSE NoSources]
    /\ sources' = (IF CursorResolves THEN sources ELSE NoSources)
    /\ UNCHANGED <<retention, sandbox, state, nwrites, base, dirty, pendingReset, masked, stored, man, ids,
                   lastProc, chain, prune, again, victims>>

\* checkpoint_once pauses, and dumps both parts without a pre-dump.
BeginManual(keep) ==
    /\ op = NoTask /\ ids < MaxCheckpoints /\ sandbox = "running" /\ sandbox' = "paused"
    /\ op' = [NoTask EXCEPT !.kind = "manual", !.pc = "dump", !.keep = keep,
                            !.job = [Blank EXCEPT !.p = TRUE, !.f = TRUE, !.at = state]]
    /\ UNCHANGED <<retention, state, nwrites, base, dirty, pendingReset, masked, stored, man, ids, sources,
                   lastProc, chain, prune, again, victims>>

\* _resolve_incremental_process, _resolve_incremental_decision and
\* _ensure_incremental_parent_available: the parent of the next process dump.
IncrementalParent ==
    IF /\ op.kind = "requested" => op.prior # NoSources
       /\ lastProc \in stored /\ man[lastProc].pre
       /\ chain + 1 < MaxChain
    THEN lastProc ELSE NoId

\* evaluate_requested: with no baseline, or when this is the first checkpoint,
\* a requested checkpoint is full.  _evaluate_change_driven_checkpoint: only
\* the first automatic one is.
NoBaseline == IF op.kind = "requested" THEN op.prior = NoSources ELSE lastProc = NoId

\* Later ones take the processes if these changed, and the filesystem always.
Scope(signal) ==
    LET p == NoBaseline \/ signal.p
    IN [Blank EXCEPT !.p = p, !.f = TRUE, !.at = state, !.pre = p,
                     !.parent = IF p THEN IncrementalParent ELSE NoId]

\* query_requested_checkpoint and query_checkpoint pause the sandbox, retry a
\* deferred reset, inspect and decide; a refusal resumes the sandbox.
Query ==
    /\ op.pc = "query"
    /\ \E applied \in {FALSE, pendingReset} :
         LET signal == IF applied THEN NoneDirty ELSE dirty
             changed == signal # NoneDirty \/ NoBaseline
         IN /\ dirty' = signal /\ pendingReset' = (pendingReset /\ ~applied)
            /\ masked' = (masked \/ (applied /\ ResetMasks))
            /\ \/ /\ sandbox # "running"
                  /\ op' = NoTask /\ UNCHANGED sandbox
               \/ /\ sandbox = "running" /\ changed
                  /\ op' = [op EXCEPT !.pc = "dump", !.job = Scope(signal)]
                  /\ sandbox' = "paused"
               \/ /\ sandbox = "running" /\ ~changed /\ op.kind = "requested"
                  /\ op' = [op EXCEPT !.pc = "reuse", !.job.at = state]
                  /\ UNCHANGED sandbox
               \/ /\ sandbox = "running" /\ op.kind = "auto"   \* no signal, or too soon
                  /\ op' = NoTask /\ UNCHANGED sandbox
    /\ UNCHANGED <<retention, state, nwrites, base, stored, man, ids, sources, lastProc, chain,
                   prune, again, victims>>

\* The manifest of a job: the sources a logical checkpoint will restore from
\* are itself for the parts it dumps and the prior sources for the others.
JobSources == [cur |-> ids + 1, p |-> IF op.job.p THEN ids + 1 ELSE op.prior.p,
                                f |-> IF op.job.f THEN ids + 1 ELSE op.prior.f]

\* DefaultCWorker.checkpoint: a filesystem dump with no process image on disk
\* is widened to both; the dump fails without its parent's pre-dump.  An
\* incremental image restores the live processes only from their own lineage.
DumpImage ==
         /\ op.pc = "dump"
         /\ op.job.parent = NoId \/ op.job.parent \in stored
         /\ LET p == op.job.p \/ \A i \in stored : ~man[i].p
                image == [p |-> IF op.job.parent \in {NoId, base} THEN state.p ELSE Corrupt, f |-> state.f]
            IN op' = [op EXCEPT !.pc = "put",
                        !.job = [@ EXCEPT !.image = image, !.p = p, !.logical = (op.kind = "requested"),
                                   !.sources = IF op.kind = "requested" THEN JobSources ELSE NoSources]]
         /\ UNCHANGED <<retention, sandbox, state, nwrites, base, dirty, pendingReset, masked, stored, man, ids, sources,
                        lastProc, chain, prune, again, victims>>

\* A step or the write of the manifest fails: what was dumped is discarded
\* and the sandbox resumed.
CheckpointFails ==
    /\ op.pc \in {"dump", "put", "reuse"}
    /\ sandbox' = "running" /\ op' = NoTask
    /\ UNCHANGED <<retention, state, nwrites, base, dirty, pendingReset, masked, stored, man, ids, sources,
                   lastProc, chain, prune, again, victims>>

\* put_manifest, then handle_checkpoint_complete.
StoreManifest(m) == /\ ids' = ids + 1 /\ stored' = stored \cup {ids + 1}
                    /\ man' = [man EXCEPT ![ids + 1] = m]
                    /\ SchedulePrune

Put == /\ op.pc = "put" /\ StoreManifest(op.job) /\ op' = [op EXCEPT !.pc = "finish"]
       /\ UNCHANGED <<retention, sandbox, state, nwrites, base, dirty, pendingReset, masked, sources, lastProc, chain,
                      victims>>

\* A requested checkpoint of a clean sandbox: a manifest without artifacts.
Reuse == /\ op.pc = "reuse"
         /\ LET s == [op.prior EXCEPT !.cur = ids + 1]
            IN /\ StoreManifest([op.job EXCEPT !.logical = TRUE, !.sources = s]) /\ sources' = s
         /\ op' = NoTask
         /\ UNCHANGED <<retention, sandbox, state, nwrites, base, dirty, pendingReset, masked, lastProc, chain, victims>>

\* What the flow hands the scheduler and the cursor.  A requested flow goes by
\* its decision, the others by the artifacts of the manifest.
TookProcess == IF op.kind = "requested" THEN op.job.sources.p = ids ELSE op.job.p
NewSources == IF op.kind = "requested" THEN op.job.sources
              ELSE IF op.job.p THEN [cur |-> ids, p |-> ids, f |-> ids]
              ELSE IF op.prior = NoSources THEN NoSources
              ELSE [cur |-> ids, p |-> op.prior.p, f |-> ids]

\* record_process_checkpoint.
NewChain == IF ~TookProcess THEN chain ELSE IF op.job.parent # NoId THEN chain + 1 ELSE 0

\* The flow moves the cursor and the scheduler's base, then resumes.
Finish == /\ op.pc = "finish" /\ op' = [NoTask EXCEPT !.kind = op.kind, !.pc = "rebase"]
          /\ sandbox' = (IF op.keep THEN "running" ELSE "down")
          /\ sources' = NewSources /\ chain' = NewChain
          /\ lastProc' = (IF TookProcess THEN ids ELSE lastProc)
          /\ base' = (IF op.job.p THEN ids ELSE base)
          /\ UNCHANGED <<retention, state, nwrites, dirty, pendingReset, masked, stored, man, ids, prune, again,
                         victims>>

\* inspector.mark_checkpoint_complete, after the sandbox was resumed: the host
\* forgets every change, or the reset fails and is left to the next inspect.
\* Then handle_restore_complete.
Rebase == /\ op.pc = "rebase" /\ op' = NoTask
          /\ \/ dirty' = NoneDirty /\ pendingReset' = FALSE /\ masked' = (masked \/ ResetMasks)
             \/ pendingReset' = TRUE /\ UNCHANGED <<dirty, masked>>
          /\ Delete(IF op.kind = "restore" /\ retention = "delete_after_restore" THEN stored ELSE {})
          /\ UNCHANGED <<retention, sandbox, state, nwrites, base, ids, sources, lastProc, chain, prune,
                         again, victims>>

-----------------------------------------------------------------------------
(* Restores and deletions *)

\* restore_once resolves the sources, then tears the runtime down.
BeginRestore(c) ==
    /\ op = NoTask /\ Loadable(c) /\ (c = Latest(stored) \/ retention \in RollbackRetentions)
    /\ op' = [NoTask EXCEPT !.kind = "restore", !.pc = "restore", !.target = c,
                            !.prior = [Resolve(c) EXCEPT !.cur = c]]
    /\ sandbox' = "down"
    /\ UNCHANGED <<retention, state, nwrites, base, dirty, pendingReset, masked, stored, man, ids, sources, lastProc,
                   chain, prune, again, victims>>

\* _stored_process_chain_length.
RestoredDepth(c) == ChainLength(c)

\* Mutant: a restore leaves the scheduler's parent as it was.
ParentKept(c) == lastProc

\* set_process_checkpoint_base.
RestoredParent(c) == c

\* _remember_current_restore_sources in restore_once.
RestoredCursor(s) == s

\* DefaultRWorker.restore resolves again and validates the chain; the new
\* process is registered with the inspector, and its source becomes the base.
RunRestore ==
    /\ op.pc = "restore" /\ Restorable(op.target)
    /\ state' = Content(Resolve(op.target)) /\ base' = Resolve(op.target).p
    /\ sandbox' = "running" /\ dirty' = NoneDirty
    /\ sources' = RestoredCursor(op.prior)
    /\ lastProc' = RestoredParent(op.prior.p) /\ chain' = RestoredDepth(op.prior.p)
    /\ op' = [NoTask EXCEPT !.kind = "restore", !.pc = "rebase"]
    /\ UNCHANGED <<retention, nwrites, pendingReset, masked, stored, man, ids, prune, again, victims>>

\* The sandbox stays down.
RestoreFails == /\ op.pc = "restore" /\ op' = NoTask
                /\ UNCHANGED <<retention, sandbox, state, nwrites, base, dirty, pendingReset, masked, stored, man, ids,
                               sources, lastProc, chain, prune, again, victims>>

\* Sandbox.checkpoints.delete.  A cascade is one of these per dependent.
DeleteCheckpoint(c) ==
    /\ op = NoTask /\ retention \in RollbackRetentions
    /\ c \in stored /\ Dependents(c) = {} /\ Delete({c})
    /\ UNCHANGED <<retention, sandbox, state, nwrites, base, dirty, pendingReset, masked, ids, sources,
                   lastProc, chain, op, prune, again, victims>>

CNext == \/ \E k \in {"p", "f"} : Write(k)
         \/ \E kind \in {"requested", "auto"}, keep \in BOOLEAN : BeginFlow(kind, keep)
         \/ \E keep \in BOOLEAN : BeginManual(keep)
         \/ Query \/ DumpImage \/ Put \/ Reuse \/ CheckpointFails \/ Finish \/ Rebase
         \/ \E c \in stored : BeginRestore(c) \/ DeleteCheckpoint(c)
         \/ RunRestore \/ RestoreFails
         \/ Retention

CSpec == CInit /\ [][CNext]_cvars

-----------------------------------------------------------------------------
(* Properties *)

\* The types.  The scheduler's chain never reaches the configured length
\* (_resolve_incremental_process).
CTypeOK ==
    /\ retention \in Retentions /\ sandbox \in {"running", "paused", "down"}
    /\ state \in Versions /\ nwrites \in 0..MaxWrites /\ base \in Id
    /\ dirty \in [p : BOOLEAN, f : BOOLEAN] /\ pendingReset \in BOOLEAN /\ masked \in BOOLEAN
    /\ stored \subseteq 1..ids /\ ids \in 0..MaxCheckpoints /\ man \in [CkptIds -> Manifest]
    /\ sources \in Sources /\ lastProc \in Id /\ chain \in 0..(MaxChain - 1)
    /\ op.kind \in {"none", "requested", "auto", "manual", "restore"}
    /\ op.pc \in {"idle", "query", "dump", "put", "reuse", "finish", "rebase", "restore"}
    /\ op.keep \in BOOLEAN /\ op.prior \in Sources /\ op.job \in Manifest /\ op.target \in Id
    /\ prune \in {"none", "due", "running", "idle"} /\ again \in BOOLEAN /\ victims \subseteq CkptIds

\* A reset of the inspector wipes no change that is not in an image
\* (checkpoint_once: "real activity is never masked").  It is violated: the
\* reset comes after the resume, or later still when it was deferred.
NothingMasked == ~masked

\* Every checkpoint on disk can be restored, and restores to the state the
\* sandbox was in when it was taken: whether it was dumped whole, as a partial
\* or incremental image, or only names older images (checkpoint_requested: "to
\* keep the logical point exact"), whatever was restored, deleted and pruned
\* in between.  Only a masked change can break it.
PointIsExact == ~masked => \A c \in stored : Restorable(c) /\ Content(Resolve(c)) = man[c].at

\* What a requested checkpoint of an unchanged sandbox would reuse is what the
\* sandbox is: between operations, and until a change is masked, either the
\* inspector reports a change since the sources under the cursor were taken,
\* or they hold the live state.
UnchangedMeansSame ==
    ~masked /\ op = NoTask /\ sandbox = "running" /\ CursorResolves =>
        /\ state.p # Content(sources).p => dirty.p
        /\ state.f # Content(sources).f => dirty.f

\* No stored incremental chain is as long as the configured maximum, also
\* when restores go back and forth between chains.
ChainBounded == \A c \in stored : ChainLength(c) < MaxChain

\* When the retention thread has nothing more to do, all that is left on disk
\* is what the newest checkpoint needs: a checkpoint that completed while a
\* prune ran was not forgotten, and no prune stopped half-way.
RetentionConverges == retention = "latest_only" /\ prune = "idle" => stored \subseteq ProtectedIds

\* What is stored is exact, and so is what the scheduler and the retention
\* thread make of it: every checkpoint restores to its own state, an unchanged
\* sandbox is one the cursor's images hold, no chain is too long, and pruning
\* ends with what the newest checkpoint needs.
CheckpointsAreSound == CTypeOK /\ PointIsExact /\ UnchangedMeansSame /\ ChainBounded /\ RetentionConverges
=============================================================================
