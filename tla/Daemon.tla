------------------------------- MODULE Daemon -------------------------------
(***************************************************************************)
(* The request threads of the daemon (crab/daemon/server.py) on one        *)
(* sandbox.  Every request is a thread: a command (exec, its streaming     *)
(* form, action) takes a command slot of the activity gate; a lifecycle    *)
(* route (kill, stop, pause, checkpoint, checkpoint-stop, fork) claims the *)
(* sandbox and drains it; resume, start, restart and restore go straight   *)
(* to the engine.  An action whose command succeeded leaves a background   *)
(* thread that takes the checkpoint and publishes a job.                   *)
(*                                                                         *)
(* Gates of two sandboxes share nothing but the lock, so one sandbox is    *)
(* the whole story.  A deadline that passes is a step the gate may take    *)
(* whenever the thread still has to wait.                                  *)
(***************************************************************************)
EXTENDS Naturals, FiniteSets

CONSTANTS Threads,   \* request threads, each serves one request
          Ops,       \* the routes clients call in this instance
          Ids,       \* checkpoint ids clients allocate
          MaxWork    \* bound: commands that change the sandbox

VARIABLES dpc,       \* where each request thread is
          dop,       \* the route it serves
          did,       \* the checkpoint id in its body
          gate,      \* _sandbox_activity: commands, background, lifecycle
          idle,      \* the event of _ckpt_backpressure: set
          bg,        \* the background thread an action left
          job,       \* _job_store: the job of each client-allocated id
          run,       \* what the runtime says of the sandbox
          manifests, \* ids with a durable manifest
          work,      \* commands that ever changed a sandbox; names contents
          live,      \* the content of the sandbox: the last command in it
          dumped,    \* the contents dumped under each id
          reply      \* what each request was answered

threadVars == <<dpc, dop, did>>
storeVars == <<manifests, dumped>>
boxVars == <<run, work, live>>
dvars == <<threadVars, gate, idle, bg, job, boxVars, storeVars, reply>>

Lifecycle == {"kill", "stop", "pause", "checkpoint", "checkpoint_stop", "fork"}
Direct == {"resume", "start", "restart", "restore", "delete_checkpoint"}

ASSUME DaemonAssumption == /\ IsFiniteSet(Threads) /\ MaxWork \in Nat
                           /\ Ops \subseteq {"exec", "action"} \cup Lifecycle \cup Direct

InCommand == {"exec", "register", "busy", "reserve", "spawn", "end_command"}
InLifecycle == {"drain", "body", "stop", "retry_stop", "end_lifecycle"}
InBackground == {"checkpoint", "publish", "end_background"}

DInit == /\ dpc = [t \in Threads |-> "new"]
         /\ dop = [t \in Threads |-> "none"] /\ did \in [Threads -> Ids]
         /\ gate = [commands |-> 0, background |-> 0, lifecycle |-> FALSE]
         /\ idle = TRUE
         /\ bg = [t \in Threads |-> "none"] /\ job = [i \in Ids |-> "none"]
         /\ run = "running" /\ work = 0 /\ live = 0
         /\ manifests = {} /\ dumped = [i \in Ids |-> {}]
         /\ reply = [t \in Threads |-> "none"]

Goto(t, from, to) == dpc[t] = from /\ dpc' = [dpc EXCEPT ![t] = to]
Answer(t, r) == reply' = [reply EXCEPT ![t] = r]
Keep(vs) == UNCHANGED <<dop, did, vs>>
Less(n) == IF n = 0 THEN 0 ELSE n - 1

\* _dispatch finds the route and runs its handler on this thread.
Dispatch(t) == /\ dpc[t] = "new"
               /\ \E op \in Ops :
                    /\ dop' = [dop EXCEPT ![t] = op]
                    /\ dpc' = [dpc EXCEPT ![t] = CASE op = "action" -> "wait_idle"
                                                   [] op = "exec" -> "begin_command"
                                                   [] op \in Lifecycle -> "begin_lifecycle"
                                                   [] op \in Direct -> "direct"]
               /\ UNCHANGED <<did, gate, idle, bg, job, boxVars, storeVars, reply>>

-----------------------------------------------------------------------------
(* The backpressure event and the activity gate *)

\* wait_idle: the event is set, or the wait runs out and the route answers 400.
WaitIdle(t) == /\ \/ idle /\ Goto(t, "wait_idle", "begin_command") /\ UNCHANGED reply
                  \/ ~idle /\ Goto(t, "wait_idle", "done") /\ Answer(t, "busy")
               /\ Keep(<<gate, idle, bg, job, boxVars, storeVars>>)

\* Mutant: a command waits for lifecycle routes only.
BeginCommandDuringCheckpoint(t) ==
    /\ \/ /\ ~gate.lifecycle
          /\ Goto(t, "begin_command", "exec")
          /\ gate' = [gate EXCEPT !.commands = @ + 1] /\ UNCHANGED reply
       \/ /\ gate.lifecycle
          /\ Goto(t, "begin_command", "done")
          /\ Answer(t, "busy") /\ UNCHANGED gate
    /\ Keep(<<idle, bg, job, boxVars, storeVars>>)

BeginCommand(t) ==
    LET busy == gate.lifecycle \/ gate.background > 0
    IN  /\ \/ /\ ~busy
              /\ Goto(t, "begin_command", "exec")
              /\ gate' = [gate EXCEPT !.commands = @ + 1] /\ UNCHANGED reply
           \/ /\ busy
              /\ Goto(t, "begin_command", "done")
              /\ Answer(t, "busy") /\ UNCHANGED gate
        /\ Keep(<<idle, bg, job, boxVars, storeVars>>)

EndCommand(t) == /\ Goto(t, "end_command", "done")
                 /\ gate' = [gate EXCEPT !.commands = Less(@)]
                 /\ Keep(<<idle, bg, job, boxVars, storeVars, reply>>)

\* begin_lifecycle, first wait: claim the sandbox before draining it, so
\* that no new command enters meanwhile.
ClaimLifecycle(t) ==
    /\ \/ /\ ~gate.lifecycle
          /\ Goto(t, "begin_lifecycle", "drain")
          /\ gate' = [gate EXCEPT !.lifecycle = TRUE] /\ UNCHANGED reply
       \/ /\ gate.lifecycle
          /\ Goto(t, "begin_lifecycle", "done")
          /\ Answer(t, "busy") /\ UNCHANGED gate
    /\ Keep(<<idle, bg, job, boxVars, storeVars>>)

\* Mutant: the drain looks at the commands alone.
DrainCommandsOnly(t) ==
    /\ \/ gate.commands = 0 /\ Goto(t, "drain", "body") /\ UNCHANGED <<gate, reply>>
       \/ /\ gate.commands > 0
          /\ Goto(t, "drain", "done")
          /\ gate' = [gate EXCEPT !.lifecycle = FALSE] /\ Answer(t, "busy")
    /\ Keep(<<idle, bg, job, boxVars, storeVars>>)
\* begin_lifecycle, second wait: drained, or the deadline passes and the
\* claim is given back.
DrainLifecycle(t) ==
    LET quiet == gate.commands = 0 /\ gate.background = 0
    IN  /\ \/ quiet /\ Goto(t, "drain", "body") /\ UNCHANGED <<gate, reply>>
           \/ /\ ~quiet
              /\ Goto(t, "drain", "done")
              /\ gate' = [gate EXCEPT !.lifecycle = FALSE] /\ Answer(t, "busy")
        /\ Keep(<<idle, bg, job, boxVars, storeVars>>)

EndLifecycle(t) == /\ Goto(t, "end_lifecycle", "done")
                   /\ gate' = [gate EXCEPT !.lifecycle = FALSE]
                   /\ Keep(<<idle, bg, job, boxVars, storeVars, reply>>)

-----------------------------------------------------------------------------
(* exec_sandbox, exec_sandbox_stream and the command of action_sandbox *)

\* The command runs and returns 0, or returns non-zero, or raises (it always
\* does when the sandbox does not run); a command that raised may have
\* changed the sandbox as well (a timeout).  Only an action that asked for a
\* checkpoint and whose command returned 0 goes on.
RunExec(t) ==
    /\ dpc[t] = "exec"
    /\ \E rc \in IF run = "running" THEN {"zero", "nonzero", "raises"} ELSE {"raises"} :
         /\ \/ run = "running" /\ work < MaxWork /\ work' = work + 1 /\ live' = work + 1
            \/ UNCHANGED <<work, live>>
         /\ dpc' = [dpc EXCEPT ![t] = IF rc = "zero" /\ dop[t] = "action" THEN "register"
                                      ELSE "end_command"]
         /\ Answer(t, IF rc = "raises" THEN "error" ELSE "ok")
    /\ Keep(<<gate, idle, bg, job, run, storeVars>>)

\* action_sandbox after the command, while it still owns its command slot:
\* register the job, mark the checkpoint as in flight, reserve the
\* background slot, start the thread.
RegisterJob(t) == /\ Goto(t, "register", "busy")
                  /\ job' = [job EXCEPT ![did[t]] = "pending"]
                  /\ Keep(<<gate, idle, bg, boxVars, storeVars, reply>>)
MarkBusy(t) == /\ Goto(t, "busy", "reserve")
               /\ idle' = FALSE
               /\ Keep(<<gate, bg, job, boxVars, storeVars, reply>>)
BeginBackground(t) == /\ Goto(t, "reserve", "spawn")
                      /\ gate' = [gate EXCEPT !.background = @ + 1]
                      /\ Keep(<<idle, bg, job, boxVars, storeVars, reply>>)
SpawnBackground(t) ==
    /\ Goto(t, "spawn", "end_command")
    /\ \/ bg' = [bg EXCEPT ![t] = "checkpoint"] /\ UNCHANGED <<gate, idle, reply>>
       \/ /\ idle' = TRUE /\ Answer(t, "error") /\ UNCHANGED bg
          /\ gate' = [gate EXCEPT !.background = Less(@)]
    /\ Keep(<<job, boxVars, storeVars>>)

\* A dump under id i: runc refuses it when the container is not alive.
Dump(i) == /\ run \in {"running", "paused"}
           /\ manifests' = manifests \cup {i}
           /\ dumped' = [dumped EXCEPT ![i] = {live}]

\* The background thread: the job ends as the checkpoint did; the event is
\* set, then the background slot is given back.
BackgroundCheckpoint(t) ==
    /\ bg[t] = "checkpoint"
    /\ \/ Dump(did[t]) /\ job' = [job EXCEPT ![did[t]] = "completed"]
       \/ job' = [job EXCEPT ![did[t]] = "failed"] /\ UNCHANGED storeVars
    /\ bg' = [bg EXCEPT ![t] = "publish"]
    /\ UNCHANGED <<threadVars, gate, idle, boxVars, reply>>
PublishIdle(t) == /\ bg[t] = "publish"
                  /\ idle' = TRUE /\ bg' = [bg EXCEPT ![t] = "end_background"]
                  /\ UNCHANGED <<threadVars, gate, job, boxVars, storeVars, reply>>
EndBackground(t) ==
    /\ bg[t] = "end_background"
    /\ gate' = [gate EXCEPT !.background = Less(@)]
    /\ bg' = [bg EXCEPT ![t] = "done"]
    /\ UNCHANGED <<threadVars, idle, job, boxVars, storeVars, reply>>

-----------------------------------------------------------------------------
(* The lifecycle routes, between their claim and its release *)

\* runtime.stop: the container has to be alive; the command may fail.
StopRuntime(t) == \/ run \in {"running", "paused"} /\ run' = "stopped" /\ Answer(t, "ok")
                  \/ Answer(t, "error") /\ UNCHANGED run

\* _kill_sandbox_unlocked: the bookkeeping and the stop are best effort; a
\* failed delete is raised and leaves the sandbox registered.
KillBody(t) == /\ dop[t] = "kill" /\ Goto(t, "body", "end_lifecycle")
               /\ \/ run' = "deleted" /\ Answer(t, "ok")
                  \/ run' \in {run, IF run = "deleted" THEN run ELSE "stopped"}
                     /\ Answer(t, "error")
               /\ Keep(<<gate, idle, bg, job, work, live, storeVars>>)

StopBody(t) == /\ dop[t] = "stop" /\ Goto(t, "body", "end_lifecycle")
               /\ StopRuntime(t)
               /\ Keep(<<gate, idle, bg, job, work, live, storeVars>>)

PauseBody(t) == /\ dop[t] = "pause" /\ Goto(t, "body", "end_lifecycle")
                /\ \/ run = "running" /\ run' = "paused" /\ Answer(t, "ok")
                   \/ Answer(t, "error") /\ UNCHANGED run
                /\ Keep(<<gate, idle, bg, job, work, live, storeVars>>)

\* create_checkpoint, and the dump of a fork, under the claim.
CheckpointBody(t) ==
    /\ dop[t] \in {"checkpoint", "fork"} /\ Goto(t, "body", "end_lifecycle")
    /\ \/ Dump(did[t]) /\ Answer(t, "ok")
       \/ Answer(t, "failed") /\ UNCHANGED storeVars
    /\ Keep(<<gate, idle, bg, job, boxVars>>)

\* checkpoint_stop_sandbox, first half: a manifest under the requested id
\* is a retry and is not dumped again; a failed dump leaves it running.
CheckpointStopDump(t) ==
    /\ dop[t] = "checkpoint_stop"
    /\ \/ /\ did[t] \in manifests
          /\ Goto(t, "body", "retry_stop") /\ UNCHANGED <<storeVars, reply>>
       \/ /\ did[t] \notin manifests /\ Dump(did[t])
          /\ Goto(t, "body", "stop") /\ UNCHANGED reply
       \/ /\ did[t] \notin manifests /\ Goto(t, "body", "end_lifecycle")
          /\ Answer(t, "failed") /\ UNCHANGED storeVars
    /\ Keep(<<gate, idle, bg, job, boxVars>>)

\* checkpoint_stop_sandbox, second half.
CheckpointStopStop(t) ==
    /\ Goto(t, "stop", "end_lifecycle") \/ Goto(t, "retry_stop", "end_lifecycle")
    /\ StopRuntime(t)
    /\ Keep(<<gate, idle, bg, job, work, live, storeVars>>)

-----------------------------------------------------------------------------
(* The routes that take no gate *)

\* resume answers ok for a container that runs or is gone; start (and
\* restart, which ends in start) first deletes the container, whatever it
\* is doing, so one that fails leaves it stopped; restore does the same and
\* brings back the dumped content.
Resume == run' = IF run = "paused" THEN "running" ELSE run
Relaunch == run' \in {"running", "stopped"}
DirectRoute(t) ==
    /\ Goto(t, "direct", "done")
    /\ \/ run = "deleted" /\ Answer(t, "error") /\ UNCHANGED <<run, live, manifests>>
       \/ /\ run # "deleted"
          /\ \/ dop[t] = "resume" /\ Resume /\ UNCHANGED <<live, manifests>>
             \/ dop[t] \in {"start", "restart"} /\ Relaunch /\ UNCHANGED <<live, manifests>>
             \/ /\ dop[t] = "restore" /\ did[t] \in manifests /\ Relaunch
                /\ live' \in dumped[did[t]] /\ UNCHANGED manifests
             \/ /\ dop[t] = "delete_checkpoint"
                /\ manifests' = manifests \ {did[t]} /\ UNCHANGED <<run, live>>
          /\ Answer(t, IF dop[t] \in {"start", "restart", "restore"} /\ run' = "stopped"
                       THEN "error" ELSE "ok")
       \/ /\ dop[t] = "restore" /\ did[t] \notin manifests
          /\ Answer(t, "error") /\ UNCHANGED <<run, live, manifests>>
    /\ Keep(<<gate, idle, bg, job, work, dumped>>)

Handler(t) == \/ WaitIdle(t) \/ BeginCommand(t) \/ EndCommand(t)
              \/ ClaimLifecycle(t) \/ DrainLifecycle(t) \/ EndLifecycle(t)
              \/ RunExec(t) \/ RegisterJob(t) \/ MarkBusy(t) \/ BeginBackground(t)
              \/ SpawnBackground(t)
              \/ KillBody(t) \/ StopBody(t) \/ PauseBody(t) \/ CheckpointBody(t)
              \/ CheckpointStopDump(t) \/ CheckpointStopStop(t) \/ DirectRoute(t)
Background(t) == BackgroundCheckpoint(t) \/ PublishIdle(t) \/ EndBackground(t)

DNext == \E t \in Threads : Dispatch(t) \/ Handler(t) \/ Background(t)

DSpec == DInit /\ [][DNext]_dvars

\* A thread that got past dispatch runs on: its waits are bounded by
\* _BACKPRESSURE_TIMEOUT_SECONDS and _QUIESCE_TIMEOUT_SECONDS.
DFairness == \A t \in Threads : WF_dvars(Handler(t)) /\ WF_dvars(Background(t))
DFairSpec == DSpec /\ DFairness

-----------------------------------------------------------------------------
DTypeOK == /\ dpc \in [Threads -> {"new", "wait_idle", "begin_command", "begin_lifecycle",
                                   "direct", "done"} \cup InCommand \cup InLifecycle]
           /\ did \in [Threads -> Ids]
           /\ gate \in [commands : Nat, background : Nat, lifecycle : BOOLEAN]
           /\ idle \in BOOLEAN
           /\ bg \in [Threads -> {"none", "done"} \cup InBackground]
           /\ job \in [Ids -> {"none", "pending", "completed", "failed"}]
           /\ run \in {"running", "paused", "stopped", "deleted"}
           /\ manifests \subseteq Ids

\* While a lifecycle route works on the sandbox (it has claimed and drained
\* it), no command of another request is inside the sandbox, no background
\* checkpoint is writing, and no other lifecycle route works on it: "the
\* lifecycle claim blocks new commands across both operations".
Working == {"body", "stop", "retry_stop"}
QuiescentLifecycle ==
    \A t \in Threads : dpc[t] \in Working =>
        /\ \A u \in Threads : dpc[u] \notin InCommand /\ bg[u] \notin InBackground
        /\ \A u \in Threads \ {t} : dpc[u] \notin InLifecycle \ {"drain"}

\* begin_command: a command never enters the sandbox while the checkpoint of
\* an earlier action is being taken, so what that checkpoint holds is the
\* outcome of its own action.  Commands already inside do not count: they
\* entered before the action ended.
CommandWaitsForCheckpoint ==
    [][\A t \in Threads : (dpc[t] # "exec" /\ dpc'[t] = "exec")
          => \A u \in Threads : bg[u] # "checkpoint"]_dvars

\* checkpoint_stop_sandbox, whose dump and stop are two steps: when it comes
\* to the stop of a sandbox it has just dumped, what the sandbox holds is in
\* some dump, whatever ran in between (resume, start and restore are not gated).
StopKeepsWork == \A t \in Threads : dpc[t] = "stop" => \E i \in Ids : live \in dumped[i]

\* Every path out of a handler or a background thread gives back what it
\* took: with no request or background thread inside, the gate is open and
\* the backpressure event is set.
GateDrained ==
    (\A t \in Threads : dpc[t] \in {"new", "done"} /\ bg[t] \in {"none", "done"})
        => gate = [commands |-> 0, background |-> 0, lifecycle |-> FALSE] /\ idle

\* The background thread of an action releases both gates even if its
\* checkpoint fails, so the sandbox never stays busy.
BusyEnds == (~idle \/ gate.background > 0) ~> (idle /\ gate.background = 0)

-----------------------------------------------------------------------------
(***************************************************************************)
(* Idle reclaim with idle_action checkpoint_stop: the gateway's activity   *)
(* gate and its sweep (crab/gateway/server.py) on top of the daemon's      *)
(* request threads on the same sandbox.  A gateway request may give up on  *)
(* its daemon call (a timeout) or die with the gateway; the daemon's       *)
(* thread runs on either way.                                              *)
(***************************************************************************)

CONSTANTS Activities, \* daemon threads that serve tenants' exec requests
          Sweeps,     \* daemon threads that serve the sweep's checkpoint_stop
          MaxGwCrashes

ASSUME IdleAssumption == /\ Activities \subseteq Threads /\ Sweeps \subseteq Threads
                         /\ Activities \cap Sweeps = {} /\ MaxGwCrashes \in Nat

VARIABLES actv,    \* _GatewayActivityGate: activities
          reclaim, \* _GatewayActivityGate: reclaim
          acpc,    \* the gateway's side of each activity
          sweep,   \* the sweep: its step and the daemon thread it calls
          irow,    \* the row's last_idle_* fields, and whether last_activity
                   \* is later than last_idle_reclaim_at
          episode, \* history: the ids allocated since the last activity, and
                   \* how many dumps were taken under them
          gcrash

gateVars == <<actv, reclaim, acpc, sweep, irow>>
ivars == <<dvars, gateVars, episode, gcrash>>

IInit == /\ DInit
         /\ actv = 0 /\ reclaim = FALSE /\ acpc = [t \in Activities |-> "new"]
         /\ sweep = [at |-> "idle", by |-> {}]
         /\ irow = [status |-> "none", id |-> {}, active |-> TRUE]
         /\ episode = [ids |-> {}, dumps |-> 0] /\ gcrash = 0

\* The daemon's thread t takes up a call for route op.
Call(t, op, entry) == /\ Goto(t, "new", entry) /\ dop' = [dop EXCEPT ![t] = op]
                      /\ UNCHANGED <<gate, idle, bg, job, boxVars, storeVars, reply>>

\* activity(): waits for a reclaim to end, counts, touches, calls the daemon.
EnterActivity(t) ==
    /\ acpc[t] = "new" /\ ~reclaim
    /\ actv' = actv + 1 /\ acpc' = [acpc EXCEPT ![t] = "call"]
    /\ irow' = [irow EXCEPT !.active = TRUE] /\ episode' = [ids |-> {}, dumps |-> 0]
    /\ Call(t, "exec", "begin_command") /\ UNCHANGED did
    /\ UNCHANGED <<reclaim, sweep, gcrash>>

\* The daemon answered, or the call timed out.
LeaveActivity(t) ==
    /\ acpc[t] = "call" /\ acpc' = [acpc EXCEPT ![t] = "done"] /\ actv' = Less(actv)
    /\ UNCHANGED <<dvars, reclaim, sweep, irow, episode, gcrash>>

\* _reap_idle_sandboxes: the listing of this pass said running.
PickCandidate ==
    /\ sweep.at = "idle" /\ run = "running"
    /\ sweep' = [sweep EXCEPT !.at = "candidate"]
    /\ UNCHANGED <<dvars, actv, reclaim, acpc, irow, episode, gcrash>>

\* Mutant: the sweep claims the gate whoever is inside.
ClaimBusy == /\ sweep.at = "candidate" /\ reclaim' = TRUE
             /\ sweep' = [sweep EXCEPT !.at = "claimed"]
             /\ UNCHANGED <<dvars, actv, acpc, irow, episode, gcrash>>

\* reclaim_if_available; the row read again under the claim may not be
\* expired any more.
ClaimReclaim ==
    /\ sweep.at = "candidate"
    /\ \/ /\ actv = 0 /\ ~reclaim /\ reclaim' = TRUE
          /\ sweep' = [sweep EXCEPT !.at = "claimed"]
       \/ sweep' = [sweep EXCEPT !.at = "idle"] /\ UNCHANGED reclaim
    /\ UNCHANGED <<dvars, actv, acpc, irow, episode, gcrash>>

\* _idle_reclaim_checkpoint_id: the id of an attempt whose outcome is not
\* known to be a success, unless there was activity since; else a new one.
ReclaimIds == IF irow.status \in {"in_progress", "failed"} /\ ~irow.active THEN irow.id
              ELSE {i \in Ids : i \notin irow.id /\ dumped[i] = {}}

\* The id is recorded before the call.
RecordReclaim ==
    /\ sweep.at = "claimed" /\ sweep' = [sweep EXCEPT !.at = "recorded"]
    /\ \E i \in ReclaimIds :
         /\ irow' = [status |-> "in_progress", id |-> {i}, active |-> FALSE]
         /\ episode' = [episode EXCEPT !.ids = IF {i} = irow.id THEN @ ELSE @ \cup {i}]
    /\ UNCHANGED <<dvars, actv, reclaim, acpc, gcrash>>

CallReclaim(t) ==
    /\ sweep.at = "recorded" /\ sweep' = [at |-> "call", by |-> {t}]
    /\ \E i \in irow.id : did' = [did EXCEPT ![t] = i]
    /\ Call(t, "checkpoint_stop", "begin_lifecycle")
    /\ UNCHANGED <<actv, reclaim, acpc, irow, episode, gcrash>>

\* The answer, or a timeout, which is recorded as a failure.
EndReclaim ==
    /\ sweep.at = "call" /\ sweep' = [at |-> "idle", by |-> {}] /\ reclaim' = FALSE
    /\ \E status \in {"succeeded", "failed"} :
         /\ status = "succeeded" => \A t \in sweep.by : dpc[t] = "done" /\ reply[t] = "ok"
         /\ irow' = [irow EXCEPT !.status = status, !.active = FALSE]
    /\ UNCHANGED <<dvars, actv, acpc, episode, gcrash>>

\* A new gateway process: the gate is empty, the row is what it was.
GatewayCrash ==
    /\ gcrash < MaxGwCrashes /\ gcrash' = gcrash + 1
    /\ actv' = 0 /\ reclaim' = FALSE /\ sweep' = [at |-> "idle", by |-> {}]
    /\ acpc' = [t \in Activities |-> IF acpc[t] = "call" THEN "done" ELSE acpc[t]]
    /\ UNCHANGED <<dvars, irow, episode>>

DaemonStep == /\ \E t \in Activities \cup Sweeps : Handler(t)
              /\ episode' = IF \E i \in episode.ids : dumped'[i] # dumped[i]
                            THEN [episode EXCEPT !.dumps = @ + 1] ELSE episode
              /\ UNCHANGED <<gateVars, gcrash>>

INext == \/ \E t \in Activities : EnterActivity(t) \/ LeaveActivity(t)
         \/ PickCandidate \/ ClaimReclaim \/ RecordReclaim
         \/ \E t \in Sweeps : CallReclaim(t)
         \/ EndReclaim \/ GatewayCrash \/ DaemonStep

ISpec == IInit /\ [][INext]_ivars

-----------------------------------------------------------------------------
\* "An idle reclaim is exclusive": while the sweep owns the gate, no activity
\* of this gateway is between its touch and its answer.
ReclaimIsExclusive == reclaim => actv = 0 /\ \A t \in Activities : acpc[t] # "call"

\* "A gateway crash or an uncertain daemon response must not mint a second
\* checkpoint on the retry": under the ids allocated from one activity to
\* the next the sweep's calls dump the sandbox at most once, although several
\* of them may be at work in the daemon.
OneDumpPerEpisode == episode.dumps <= 1

\* When the row says that the reclaim succeeded, the checkpoint it names holds
\* what the stopped sandbox held.
ReclaimSavesContent ==
    irow.status = "succeeded" /\ ~irow.active /\ run = "stopped"
        => \A i \in irow.id : live \in dumped[i]

\* The sweep neither overlaps a tenant's activity nor dumps twice in one idle
\* episode.
ReclaimIsSafe == ReclaimIsExclusive /\ OneDumpPerEpisode
=============================================================================
