------------------------------ MODULE SpecTurn ------------------------------
(* The speculative-sandbox controller of the benchmark harness               *)
(* (benchmarks/real_host_scenario_base.py, _SpeculativeSandboxController).   *)
(* An agent runs a cheap draft of its next command on a fork of its sandbox  *)
(* while the real answer is awaited; an accepted fork becomes the sandbox.   *)
(* A handle is an object: handle Active is the agent's, handle k > 0 the     *)
(* k-th fork's; promotion swaps the sandboxes the handles stand for.         *)
(* A sandbox's content is the set of turns whose command it has run (-t for  *)
(* the rejected draft of turn t) and the set still running in its pane.      *)
EXTENDS Integers, Sequences, FiniteSets, SequencesExt

CONSTANTS MaxTurns,        \* turns an agent takes
          MaxForks,        \* forks that are ever created
          MaxPreforks      \* the global cap on preforks in flight

ASSUME SpecControlAssumption ==
    /\ MaxTurns \in Nat \ {0} /\ MaxForks \in Nat \ {0}
    /\ MaxPreforks \in Nat \ {0}

Active == 0
NoFork == -1
Turns == 1..MaxTurns
Handles == 0..MaxForks
Effects == Turns \cup {-t : t \in Turns}

VARIABLES
    reuse,      \* fork_reuse_enabled
    preforking, \* background_prefork_enabled
    turn,       \* the turn being taken
    step,       \* where the turn stands
    box,        \* the sandbox each handle stands for
    life,       \* of each sandbox: "none", "live", "killed" (runtime gone), "gone"
    content,    \* of each sandbox: [work, run]
    shots,      \* of each sandbox: its checkpoints, oldest first
    lastId,     \* checkpoint ids given so far
    nforks,     \* _fork_counter
    cached,     \* _cached_fork
    cachedId,   \* _cached_fork_checkpoint_id, 0 for untagged
    epoch,      \* _fork_epoch
    ens,        \* of each turn: its ensure_fork call
    pre,        \* the prefork executor's queue, head running
    inFlight,   \* _prefork_in_flight
    slots,      \* permits left in the global prefork semaphore
    fin,        \* of each turn: its finalize call
    pending,    \* the turn whose finalize the next ensure_fork awaits, or 0
    plan,       \* what the two answers of the turn hold: [oracle, draft]
    using,      \* the fork the turn runs its draft on
    ran,        \* the draft's execution: "no", "ok" or "fail"
    said,       \* turns whose assistant message is in the history
    told,       \* ghost: turns whose command the agent was told took effect
    faults      \* ghost: checkpoints that failed

agentvars == <<turn, step, pending, plan, using, ran, said, told, faults>>
specvars == <<reuse, preforking, box, life, content, shots, lastId, nforks, cached,
              cachedId, epoch, ens, pre, inFlight, slots, fin, turn, step, pending,
              plan, using, ran, said, told, faults>>

ctlvars == <<box, life, content, shots, lastId, nforks, cached, cachedId, epoch,
             pre, inFlight, slots>>

Latest(b) == shots[b][Len(shots[b])]
Empty == [work |-> {}, run |-> {}]

(* An ensure_fork or finalize call that has not been made. *)
NoEnsure == [pc |-> "off", id |-> 0, epoch |-> 0, fork |-> NoFork]
NoFinal == [pc |-> "off", fork |-> NoFork, reusable |-> FALSE]

ControlInit ==
    /\ reuse \in BOOLEAN /\ preforking \in BOOLEAN
    /\ turn = 0 /\ step = "idle"
    /\ box = [h \in Handles |-> h]
    /\ life = [b \in Handles |-> IF b = Active THEN "live" ELSE "none"]
    /\ content = [b \in Handles |-> Empty]
    /\ shots = [b \in Handles |-> << >>]
    /\ lastId = 0 /\ nforks = 0
    /\ cached = NoFork /\ cachedId = 0 /\ epoch = 0
    /\ ens = [t \in Turns |-> NoEnsure]
    /\ pre = << >> /\ inFlight = FALSE /\ slots = MaxPreforks
    /\ fin = [t \in Turns |-> NoFinal] /\ pending = 0
    /\ plan = [oracle |-> "noop", draft |-> "same"]
    /\ using = NoFork /\ ran = "no"
    /\ said = {} /\ told = {} /\ faults = 0

(* sandbox_state_changed: the inspector compares with the last checkpoint. *)
StateChanged(b) ==
    \/ shots[b] = << >>
    \/ content[b] # Latest(b).content

(* destroy_sandbox_dataset on a handle: the sandbox it stands for now. *)
Destroyed(h) == [life EXCEPT ![box[h]] = "gone"]
---------------------------------------------------------------------------
(* kick_prefork, run when a checkpoint of the active sandbox completes; the
   shots and the id are those after the checkpoint. *)
MayPrefork(full) ==
    /\ preforking /\ ~inFlight /\ cached = NoFork
    /\ full
    /\ slots > 0 /\ nforks < MaxForks

KickPrefork(full, id) ==
    IF MayPrefork(full)
      THEN /\ nforks' = nforks + 1
           /\ pre' = Append(pre, [pc |-> "queued", id |-> id, epoch |-> epoch,
                                  fork |-> nforks + 1])
           /\ inFlight' = TRUE
           /\ slots' = slots - 1
      ELSE UNCHANGED <<nforks, pre, inFlight, slots>>

(* A checkpoint of the active sandbox completes: full, or file system only. *)
Checkpoint(full) ==
    /\ lastId' = lastId + 1
    /\ shots' = [shots EXCEPT ![box[Active]] =
                   Append(@, [id |-> lastId + 1, full |-> full,
                              content |-> content[box[Active]]])]
    /\ KickPrefork(full, lastId + 1)
    /\ UNCHANGED <<box, life, content, cached, cachedId, epoch>>

(* clone_checkpoint_to_fork, first the copy: the artifacts and the manifest of
   checkpoint id of whatever the active handle stands for now. *)
CopyCheckpoint(id, f) ==
    LET src == box[Active] IN
    \E i \in {j \in 1..Len(shots[src]) : shots[src][j].id = id} :
        /\ content' = [content EXCEPT ![f] = shots[src][i].content]
        /\ shots' = [shots EXCEPT ![f] = <<shots[src][i]>>]

(* ... then the ancestors, the description and the task run: either the fork is
   up or nothing of it is left. *)
CloneCheckpointToFork(id, f) ==
    \/ CopyCheckpoint(id, f) /\ life' = [life EXCEPT ![f] = "live"]
    \/ life' = [life EXCEPT ![f] = "gone"] /\ UNCHANGED <<content, shots>>

(* _run_prefork up to its finally: the slot and the flag go back before the
   fork is offered to the cache. *)
PreforkReady ==
    /\ pre # << >> /\ Head(pre).pc = "queued"
    /\ CloneCheckpointToFork(Head(pre).id, Head(pre).fork)
    /\ slots' = slots + 1
    /\ inFlight' = FALSE
    /\ pre' = IF life'[Head(pre).fork] = "live"
                THEN [pre EXCEPT ![1].pc = "commit"] ELSE Tail(pre)
    /\ UNCHANGED <<box, lastId, nforks, cached, cachedId, epoch>>

(* The end of _run_prefork: only an unchanged epoch and an empty cache take it. *)
PreforkCommit ==
    /\ pre # << >> /\ Head(pre).pc = "commit"
    /\ LET p == Head(pre)
           commit == p.epoch = epoch /\ cached = NoFork IN
       /\ cached' = IF commit THEN p.fork ELSE cached
       /\ cachedId' = IF commit THEN p.id ELSE cachedId
       /\ life' = IF commit THEN life ELSE Destroyed(p.fork)
    /\ pre' = Tail(pre)
    /\ UNCHANGED <<box, content, shots, lastId, nforks, epoch, inFlight, slots>>
---------------------------------------------------------------------------
(* ensure_fork, first section under the lock: a cached fork is handed out if
   untagged or of the latest checkpoint, dropped if not. *)
AnyCache(latest) == TRUE
CacheIsFresh(latest) == cachedId = 0 \/ cachedId = latest

EnsureLook(t) ==
    /\ ens[t].pc = "look"
    /\ LET has == shots[box[Active]] # << >>
           fresh == has /\ CacheIsFresh(Latest(box[Active]).id) IN
       CASE cached # NoFork /\ fresh ->
              /\ ens' = [ens EXCEPT ![t].pc = "done", ![t].fork = cached]
              /\ UNCHANGED <<cached, cachedId, epoch>>
         [] cached # NoFork /\ ~fresh ->
              /\ ens' = [ens EXCEPT ![t].pc = "drop", ![t].fork = cached]
              /\ cached' = NoFork /\ cachedId' = 0 /\ epoch' = epoch + 1
         [] cached = NoFork ->
              /\ ens' = [ens EXCEPT ![t].pc = IF has THEN "pick" ELSE "done"]
              /\ UNCHANGED <<cached, cachedId, epoch>>
    /\ UNCHANGED <<box, life, content, shots, lastId, nforks, pre, inFlight, slots>>

(* ... the stale fork is destroyed outside the lock ... *)
EnsureDrop(t) ==
    /\ ens[t].pc = "drop"
    /\ life' = Destroyed(ens[t].fork)
    /\ ens' = [ens EXCEPT ![t].pc = "pick", ![t].fork = NoFork]
    /\ UNCHANGED <<box, content, shots, lastId, nforks, cached, cachedId, epoch,
                   pre, inFlight, slots>>

(* ... second section: the latest checkpoint is chosen, a file-system-only
   one refused, and the epoch read. *)
EnsurePick(t) ==
    /\ ens[t].pc = "pick"
    /\ LET s == shots[box[Active]] IN
       IF s = << >> \/ ~Latest(box[Active]).full
         THEN ens' = [ens EXCEPT ![t].pc = "done"] /\ UNCHANGED nforks
         ELSE /\ nforks < MaxForks
              /\ nforks' = nforks + 1
              /\ ens' = [ens EXCEPT ![t] =
                   [pc |-> "clone", id |-> Latest(box[Active]).id, epoch |-> epoch,
                    fork |-> nforks + 1]]
    /\ UNCHANGED <<box, life, content, shots, lastId, cached, cachedId, epoch,
                   pre, inFlight, slots>>

(* ... the clone and restore, off the lock; a failure gives no fork. *)
EnsureClone(t) ==
    /\ ens[t].pc = "clone"
    /\ CloneCheckpointToFork(ens[t].id, ens[t].fork)
    /\ ens' = IF life'[ens[t].fork] = "live"
                THEN [ens EXCEPT ![t].pc = "commit"]
                ELSE [ens EXCEPT ![t].pc = "done", ![t].fork = NoFork]
    /\ UNCHANGED <<box, lastId, nforks, cached, cachedId, epoch, pre, inFlight, slots>>

(* ... and the last section: cached unless an invalidation intervened. *)
EnsureCommit(t) ==
    /\ ens[t].pc = "commit"
    /\ IF ens[t].epoch = epoch
         THEN /\ cached' = ens[t].fork /\ cachedId' = ens[t].id
              /\ ens' = [ens EXCEPT ![t].pc = "done"]
              /\ UNCHANGED life
         ELSE /\ life' = Destroyed(ens[t].fork)
              /\ ens' = [ens EXCEPT ![t].pc = "done", ![t].fork = NoFork]
              /\ UNCHANGED <<cached, cachedId>>
    /\ UNCHANGED <<box, content, shots, lastId, nforks, epoch, pre, inFlight, slots>>

(* _swap_speculative_sandbox_state: the two handles trade their boxes. *)
SwapSpeculativeState(f) ==
    box' = [box EXCEPT ![Active] = box[f], ![f] = box[Active]]

(* promote_fork. *)
PromoteFork(f) ==
    /\ SwapSpeculativeState(f)
    /\ cached' = IF reuse THEN f ELSE cached
    /\ UNCHANGED <<life, content, shots, lastId, nforks, cachedId, epoch, pre,
                   inFlight, slots>>

(* cancel_fork_runtime: the container only. *)
CancelForkRuntime(f) == [life EXCEPT ![box[f]] = IF @ = "live" THEN "killed" ELSE @]

(* invalidate_fork: the cache is emptied, the epoch moved, the fork destroyed. *)
InvalidateFork ==
    /\ cached' = NoFork /\ cachedId' = 0 /\ epoch' = epoch + 1
    /\ life' = IF cached = NoFork THEN life ELSE Destroyed(cached)
    /\ UNCHANGED <<box, content, shots, lastId, nforks, pre, inFlight, slots>>

(* release_fork: kept for reuse, or taken out of the cache and destroyed. *)
ReleaseFork(f, reusable) ==
    /\ IF reusable /\ reuse
         THEN cached' = f /\ cachedId' = 0 /\ UNCHANGED life
         ELSE /\ cached' = IF cached = f THEN NoFork ELSE cached
              /\ cachedId' = IF cached = f THEN 0 ELSE cachedId
              /\ life' = Destroyed(f)
    /\ UNCHANGED <<box, content, shots, lastId, nforks, epoch, pre, inFlight, slots>>

(* What the controller's own threads do between the agent's steps. *)
ControllerStep ==
    \/ (PreforkReady \/ PreforkCommit) /\ UNCHANGED ens
    \/ \E t \in Turns :
         EnsureLook(t) \/ EnsureDrop(t) \/ EnsurePick(t) \/ EnsureClone(t) \/ EnsureCommit(t)

ControlTypeOK ==
    /\ box \in [Handles -> Handles] /\ nforks \in 0..MaxForks
    /\ life \in [Handles -> {"none", "live", "killed", "gone"}]
    /\ \A b \in Handles : content[b].work \subseteq Effects /\ content[b].run \subseteq Effects
    /\ cached \in {NoFork} \cup (Handles \ {Active})
    /\ inFlight \in BOOLEAN /\ slots \in 0..MaxPreforks

-----------------------------------------------------------------------------
(* One speculative turn of the Terminus agent (integrations/agents/          *)
(* terminus.py, _spec_perform_step): the draft and the oracle request race,  *)
(* the draft's command runs on a fork while the oracle's is awaited, and the *)
(* fork is promoted when the two agree.  The fork is finalized off the       *)
(* turn's path, by a future the next ensure_fork awaits.                     *)

(* The oracle's commands change the sandbox or not (an empty batch does not);
   the draft's are the same, others, or none: it failed or was empty. *)
Oracles == {"noop", "effect"}
Drafts == {"same", "other", "none"}

(* What running a command adds to a sandbox: nothing, a finished effect, or
   one still running in the pane (send_keys does not wait for it); behind a
   running command it queues. *)
After(c, x, late) == IF late \/ c.run # {} THEN [c EXCEPT !.run = @ \cup {x}]
                     ELSE [c EXCEPT !.work = @ \cup {x}]

OracleEffect == IF plan.oracle = "effect" THEN {turn} ELSE {}

(* _execute_commands on the active sandbox. *)
ExecuteCommands ==
    /\ \E late \in BOOLEAN :
         content' = IF plan.oracle = "effect"
                      THEN [content EXCEPT ![box[Active]] = After(@, turn, late)]
                      ELSE content
    /\ told' = told \cup OracleEffect

(* The foreground command of a pane ends. *)
PaneDrains(b) ==
    /\ life[b] = "live" /\ content[b].run # {}
    /\ content' = [content EXCEPT ![b] = [work |-> @.work \cup @.run, run |-> {}]]
    /\ UNCHANGED <<reuse, preforking, box, life, shots, lastId, nforks, cached, cachedId,
                   epoch, ens, pre, inFlight, slots, fin, agentvars>>

(* is_pane_idle: the pane's foreground process is the shell. *)
IsPaneIdle == content[box[Active]].run = {}

(* The two requests go out.  Their answers are held until the checkpoint the
   requests ask for is taken, if the sandbox changed. *)
BeginTurn ==
    /\ step = "idle" /\ turn < MaxTurns
    /\ turn' = turn + 1
    /\ \E o \in Oracles, d \in Drafts :
         plan' = [oracle |-> o, draft |-> d]
    /\ step' = IF StateChanged(box[Active]) THEN "gate" ELSE "race"
    /\ using' = NoFork /\ ran' = "no"
    /\ UNCHANGED <<reuse, preforking, ens, fin, pending, said, told, faults, ctlvars>>

Checkpointed ==
    /\ step = "gate" /\ step' = "race"
    /\ \E full \in BOOLEAN : Checkpoint(full)
    /\ UNCHANGED <<reuse, preforking, ens, fin, turn, pending, plan, using, ran, said, told, faults>>

(* A checkpoint that fails releases the answers all the same. *)
CheckpointFails ==
    /\ step = "gate" /\ step' = "race"
    /\ faults' = faults + 1
    /\ UNCHANGED <<reuse, preforking, ens, fin, turn, pending, plan, using, ran, said, told, ctlvars>>
---------------------------------------------------------------------------
(* Whatever cannot speculate empties the cache and runs the oracle's command
   on the active sandbox. *)
FallBack ==
    /\ InvalidateFork
    /\ step' = "direct"
    /\ said' = said \cup {turn}
    /\ UNCHANGED <<reuse, preforking, ens, fin, turn, pending, plan, using, ran, told, faults>>

OracleFirst == step = "race" /\ FallBack

(* The oracle answers after a draft that failed, was empty, or gave no fork. *)
OracleAfter == step = "await" /\ FallBack

(* The oracle answers before the fork is ready. *)
OracleBeforeFork == step = "forking" /\ ens[turn].pc # "done" /\ FallBack

Direct ==
    /\ step = "direct"
    /\ ExecuteCommands
    /\ step' = "idle"
    /\ UNCHANGED <<reuse, preforking, box, life, shots, lastId, nforks, cached, cachedId,
                   epoch, ens, pre, inFlight, slots, fin, turn, pending, plan, using, ran,
                   said, faults>>

(* The draft answers first: the guards before a fork is asked for. *)
DraftFirst ==
    /\ step = "race"
    /\ CASE plan.draft = "none" -> step' = "await" /\ UNCHANGED ens
         [] ~IsPaneIdle -> step' = "drain" /\ UNCHANGED ens
         [] OTHER -> /\ step' = "forking"
                     /\ ens' = [ens EXCEPT ![turn].pc = "await"]
    /\ UNCHANGED <<reuse, preforking, fin, turn, pending, plan, using, ran, said, told, faults, ctlvars>>

(* wait_for_quiescence returns: the pane drained or the wait timed out. *)
Drained ==
    /\ step = "drain"
    /\ step' = "await"
    /\ UNCHANGED <<reuse, preforking, ens, fin, turn, pending, plan, using, ran, said, told, faults, ctlvars>>

(* _await_pending_finalize, in the thread that asks for the fork. *)
AwaitPendingFinalize(t) ==
    /\ ens[t].pc = "await"
    /\ pending # 0 => fin[pending].pc = "done"
    /\ ens' = [ens EXCEPT ![t].pc = "look"]
    /\ pending' = 0
    /\ UNCHANGED <<reuse, preforking, fin, turn, step, plan, using, ran, said, told, faults, ctlvars>>

ForkReady ==
    /\ step = "forking" /\ ens[turn].pc = "done"
    /\ using' = ens[turn].fork
    /\ step' = IF ens[turn].fork = NoFork THEN "await" ELSE "spec"
    /\ UNCHANGED <<reuse, preforking, ens, fin, turn, pending, plan, ran, said, told, faults, ctlvars>>

(* _execute_records_for_sandbox: the draft's commands on the fork. *)
DraftEffect ==
    CASE plan.draft = "same" /\ plan.oracle = "effect" -> {turn}
      [] plan.draft = "other" -> {-turn}
      [] OTHER -> {}

ExecuteDraft ==
    /\ step \in {"spec", "matched"} /\ ran = "no"
    /\ \/ /\ life[box[using]] = "live"
          /\ content' = IF DraftEffect = {} THEN content
                        ELSE [content EXCEPT ![box[using]] =
                                After(@, CHOOSE x \in DraftEffect : TRUE, FALSE)]
          /\ ran' = "ok"
       \/ ran' = "fail" /\ UNCHANGED content
    /\ UNCHANGED <<reuse, preforking, box, life, shots, lastId, nforks, cached, cachedId,
                   epoch, ens, pre, inFlight, slots, fin, turn, step, pending, plan, using,
                   said, told, faults>>

(* _finalize_speculative_fork: submitted, to be awaited by the next fork. *)
SubmitFinalize(candidate) ==
    /\ fin' = [fin EXCEPT ![turn] = [pc |-> "read", fork |-> using, reusable |-> candidate]]
    /\ pending' = turn

(* The oracle answers: a mismatch kills the fork's container at once. *)
OracleReply ==
    /\ step = "spec"
    /\ IF plan.draft = "same"
         THEN step' = "matched" /\ UNCHANGED life
         ELSE step' = "rejected" /\ life' = CancelForkRuntime(using)
    /\ UNCHANGED <<reuse, preforking, box, content, shots, lastId, nforks, cached, cachedId,
                   epoch, ens, pre, inFlight, slots, fin, turn, pending, plan, using, ran,
                   said, told, faults>>

(* The draft run failed: the oracle's commands run on the active sandbox. *)
DraftFailed ==
    /\ step = "matched" /\ ran = "fail"
    /\ SubmitFinalize(FALSE)
    /\ said' = said \cup {turn}
    /\ step' = "direct"
    /\ UNCHANGED <<reuse, preforking, ens, turn, plan, using, ran, told, faults, ctlvars>>

(* The active pane is busy after all: the fork is not promoted over it. *)
BusyAfterMatch ==
    /\ step = "matched" /\ ran = "ok" /\ ~IsPaneIdle
    /\ life' = CancelForkRuntime(using)
    /\ step' = "rejected"
    /\ UNCHANGED <<reuse, preforking, box, content, shots, lastId, nforks, cached, cachedId,
                   epoch, ens, pre, inFlight, slots, fin, turn, pending, plan, using, ran,
                   said, told, faults>>

Promote ==
    /\ step = "matched" /\ ran = "ok" /\ IsPaneIdle
    /\ PromoteFork(using)
    /\ SubmitFinalize(TRUE)
    /\ said' = said \cup {turn} /\ told' = told \cup OracleEffect
    /\ step' = "idle"
    /\ UNCHANGED <<reuse, preforking, ens, turn, plan, using, ran, faults>>

(* The oracle's commands on the active sandbox, then the fork's release. *)
Rejected ==
    /\ step = "rejected"
    /\ ExecuteCommands
    /\ SubmitFinalize(FALSE)
    /\ said' = said \cup {turn}
    /\ step' = "idle"
    /\ UNCHANGED <<reuse, preforking, box, life, shots, lastId, nforks, cached, cachedId,
                   epoch, ens, pre, inFlight, slots, turn, plan, using, ran, faults>>
---------------------------------------------------------------------------
(* _finalize_speculative_fork_sync: both sandboxes are asked whether they
   changed, then the fork is released. *)
FinalizeRead(t) ==
    /\ fin[t].pc = "read"
    /\ fin' = [fin EXCEPT ![t].pc = "release",
                 ![t].reusable = /\ @ /\ ~StateChanged(box[Active])
                                 /\ ~StateChanged(box[fin[t].fork])]
    /\ UNCHANGED <<reuse, preforking, ens, agentvars, ctlvars>>

FinalizeRelease(t) ==
    /\ fin[t].pc = "release"
    /\ ReleaseFork(fin[t].fork, fin[t].reusable)
    /\ fin' = [fin EXCEPT ![t].pc = "done"]
    /\ UNCHANGED <<reuse, preforking, ens, agentvars>>

TurnDone == step = "idle" /\ turn = MaxTurns /\ UNCHANGED specvars

TermNext ==
    \/ BeginTurn \/ Checkpointed \/ CheckpointFails
    \/ OracleFirst \/ OracleAfter \/ OracleBeforeFork \/ Direct
    \/ DraftFirst \/ Drained \/ ForkReady \/ ExecuteDraft \/ OracleReply
    \/ DraftFailed \/ BusyAfterMatch \/ Promote \/ Rejected
    \/ \E t \in Turns : AwaitPendingFinalize(t) \/ FinalizeRead(t) \/ FinalizeRelease(t)
    \/ \E b \in Handles : PaneDrains(b)
    \/ ControllerStep /\ UNCHANGED <<reuse, preforking, fin, agentvars>>
    \/ TurnDone

TermSpec == ControlInit /\ [][TermNext]_specvars
---------------------------------------------------------------------------
Held(b) == content[b].work \cup content[b].run

(* Between turns the agent's sandbox holds exactly the commands the agent was
   told about - no draft that was rejected, none lost with a promoted fork -
   so long as no checkpoint failed and forks are not reused. *)
Transparent ==
    step = "idle" /\ faults = 0 /\ ~reuse => Held(box[Active]) = told
TransparentReuse == step = "idle" /\ faults = 0 => Held(box[Active]) = told
TransparentAlways == step = "idle" => Held(box[Active]) = told

(* The sandbox behind the agent's handle is never destroyed or stopped. *)
ActiveIsLive == life[box[Active]] = "live"

(* No command running in the agent's pane dies with a promotion. *)
NoCommandKilled ==
    \A h \in Handles \ {Active} :
       life[box[h]] = "gone" /\ (\E t \in Turns : fin[t].pc = "done" /\ fin[t].fork = h)
         => content[box[h]].run \cap told \subseteq Held(box[Active])

(* The fork a draft runs on is not destroyed while the turn may still promote
   it, unless forks are reused. *)
UsedIsLive == step \in {"spec", "matched"} /\ ~reuse => life[box[using]] = "live"

(* A fork is kept for reuse only if the turn it served changed neither sandbox. *)
KeptWithoutWork == \A t \in Turns : fin[t].pc = "release" /\ fin[t].reusable => t \notin told

(* Every turn's answer is in the message history. *)
HistoryComplete == step = "idle" => said = 1..turn

(* When everything has settled, a fork that still runs is the cached one. *)
Settled == /\ step = "idle" /\ pre = << >>
           /\ \A t \in Turns : ens[t].pc \in {"off", "done"} /\ fin[t].pc \in {"off", "done"}
NoForkLeaks ==
    Settled => \A h \in Handles \ {Active} : life[box[h]] \in {"live", "killed"} => cached = h

(* A permit of the prefork cap is out exactly while a prefork holds it. *)
SlotsConserved ==
    slots = MaxPreforks - Cardinality({i \in 1..Len(pre) : pre[i].pc = "queued"})

-----------------------------------------------------------------------------
(* One speculative turn of the mini_swe agent (integrations/agents/          *)
(* mini_swe.py, _spec_perform_step).  Like the Terminus turn, but a command  *)
(* is over when its execution returns, there are no pane guards, and the     *)
(* fork is finalized within the turn.                                        *)

(* A rejected draft's fork is torn down at once, or left to finish. *)
VARIABLE eager      \* eager_cleanup_on_reject

minivars == <<specvars, eager>>

MiniInit == ControlInit /\ eager \in BOOLEAN

(* _exec_command on the active sandbox. *)
ExecCommand ==
    /\ content' = IF plan.oracle = "effect"
                    THEN [content EXCEPT ![box[Active]].work = @ \cup {turn}]
                    ELSE content
    /\ told' = told \cup OracleEffect

MiniOracleFirst == step = "race" /\ FallBack

MiniDraftFailed == step = "await" /\ FallBack

MiniForkLate == step = "forking" /\ ens[turn].pc # "done" /\ FallBack

MiniDirect ==
    /\ step = "direct"
    /\ ExecCommand
    /\ step' = "idle"
    /\ UNCHANGED <<reuse, preforking, box, life, shots, lastId, nforks, cached, cachedId,
                   epoch, ens, pre, inFlight, slots, fin, turn, pending, plan, using, ran,
                   said, faults>>

(* The draft answers first; ensure_fork is asked for at once. *)
MiniDraftFirst ==
    /\ step = "race"
    /\ IF plan.draft = "none" THEN step' = "await" /\ UNCHANGED ens
       ELSE step' = "forking" /\ ens' = [ens EXCEPT ![turn].pc = "look"]
    /\ UNCHANGED <<reuse, preforking, fin, turn, pending, plan, using, ran, said, told, faults, ctlvars>>

(* _finalize_speculative_fork, in the turn itself. *)
Finalize(candidate, active, sandbox) ==
    ReleaseFork(using, /\ candidate /\ ~StateChanged(active) /\ ~StateChanged(sandbox))

MiniReply ==
    /\ step = "spec"
    /\ step' = IF plan.draft = "same" THEN "matched" ELSE "mismatch"
    /\ UNCHANGED <<reuse, preforking, ens, fin, turn, pending, plan, using, ran, said, told,
                   faults, ctlvars>>

(* A draft run cut short: the oracle's command runs on the active sandbox,
   then the fork is released, never to be reused. *)
MiniInterrupted ==
    /\ step = "matched" /\ ran = "fail"
    /\ said' = said \cup {turn}
    /\ ExecCommand
    /\ step' = "release"
    /\ UNCHANGED <<reuse, preforking, box, life, shots, lastId, nforks, cached, cachedId,
                   epoch, ens, pre, inFlight, slots, fin, turn, pending, plan, using, ran, faults>>

(* An accepted draft: the fork becomes the sandbox, and the former sandbox
   may be kept if the command changed neither. *)
MiniAccept ==
    /\ step = "matched" /\ ran = "ok"
    /\ said' = said \cup {turn} /\ told' = told \cup OracleEffect
    /\ PromoteFork(using)
    /\ step' = "accepted"
    /\ UNCHANGED <<reuse, preforking, ens, fin, turn, pending, plan, using, ran, faults>>

(* A rejected draft: the oracle's command on the active sandbox. *)
MiniReject ==
    /\ step = "mismatch"
    /\ ExecCommand
    /\ step' = "rejected"
    /\ UNCHANGED <<reuse, preforking, box, life, shots, lastId, nforks, cached, cachedId,
                   epoch, ens, pre, inFlight, slots, fin, turn, pending, plan, using, ran,
                   said, faults>>

(* The reuse decision of each way out; a draft still running rules it out. *)
Candidate ==
    CASE step = "release" -> FALSE
      [] step = "accepted" -> TRUE
      [] step = "rejected" -> ~eager /\ ran # "no"

MiniFinalize ==
    /\ step \in {"release", "accepted", "rejected"}
    /\ Finalize(Candidate, box[Active], box[using])
    /\ step' = "idle"
    /\ UNCHANGED <<reuse, preforking, ens, fin, turn, pending, plan, using, ran, said, told, faults>>

(* A rejected draft may still run on while the oracle's command does. *)
MiniExecuteDraft ==
    /\ step = "rejected" /\ ran = "no"
    /\ content' = [content EXCEPT ![box[using]].work = @ \cup DraftEffect]
    /\ ran' = "ok"
    /\ UNCHANGED <<reuse, preforking, box, life, shots, lastId, nforks, cached, cachedId,
                   epoch, ens, pre, inFlight, slots, fin, turn, step, pending, plan, using,
                   said, told, faults>>

MiniNext ==
    /\ \/ BeginTurn \/ Checkpointed \/ CheckpointFails
       \/ MiniOracleFirst \/ MiniDraftFailed \/ MiniForkLate \/ MiniDirect
       \/ MiniDraftFirst \/ ForkReady \/ ExecuteDraft \/ MiniReply
       \/ MiniInterrupted \/ MiniAccept \/ MiniReject \/ MiniFinalize \/ MiniExecuteDraft
       \/ ControllerStep /\ UNCHANGED <<reuse, preforking, fin, agentvars>>
       \/ TurnDone
    /\ UNCHANGED eager

MiniSpec == MiniInit /\ [][MiniNext]_minivars
---------------------------------------------------------------------------
(* With the fork finalized inside the turn, reuse does not spoil the sandbox:
   it holds exactly the commands the agent was told about, so long as no
   checkpoint failed. *)
MiniTransparent == step = "idle" /\ faults = 0 => Held(box[Active]) = told

(* A fork kept for reuse equals the agent's sandbox until the next command. *)
KeptIsEqual ==
    step = "idle" /\ faults = 0 /\ cached # NoFork /\ cachedId = 0
      => content[box[cached]] = content[box[Active]]

(* The history holds the answer of every turn the agent took. *)
MiniHistory == step = "idle" => said = 1..turn
=============================================================================
