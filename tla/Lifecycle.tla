----------------------------- MODULE Lifecycle -----------------------------
(***************************************************************************)
(* The life of one runc sandbox after its launch: stop, pause, resume,     *)
(* start, restart and kill of crab/runtime/runc.py, as the daemon's routes *)
(* call them (crab/daemon/server.py).                                      *)
(*                                                                         *)
(* Each operation is a program of steps; a step is one runc command or one *)
(* update of the sandbox's description.  stop, pause and kill hold the     *)
(* sandbox's lifecycle claim; resume, start and restart do not take it.    *)
(* runc, the kernel's freezer and the file-system provider are external:   *)
(* a command may fail, up to MaxCommandFaults times.                              *)
(***************************************************************************)
EXTENDS Naturals, Sequences, FiniteSets

CONSTANTS
    Callers,     \* the request threads
    MaxOps,      \* bound on the operations called
    MaxCommandFaults    \* bound on the commands that fail

VARIABLES
    cont,      \* the container: "absent", "created", "running", "stopped"
    frozen,    \* the cgroup's freezer: "no", "yes", or "late" (still freezing)
    rstate,    \* what runc has recorded: "running" or "paused"
    dset,      \* the file-system dataset exists
    desc,      \* the description: "none", "running", "paused", "stopped"
    watched,   \* registered with the host inspector
    op, prog,  \* the operation of each caller and its steps still to do
    last,      \* how its last operation ended: "ok" or "error"
    claim,     \* the lifecycle claim is held
    killed,    \* a kill has returned (history)
    raced,     \* two operations were in flight at once (history)
    stuck,     \* both defensive resumes of a failed pause failed (history)
    ops, faults

lvars == <<cont, frozen, rstate, dset, desc, watched, op, prog, last,
           claim, killed, raced, stuck, ops, faults>>

Claimed == {"stop", "pause", "kill"}

StopSteps == <<"describe", "term", "settle", "set_stopped">>
StartSteps == <<"describe", "delete", "create", "boot", "set_running", "register">>
OpSteps(o) ==
    CASE o = "stop" -> StopSteps
      [] o = "pause" -> <<"describe", "freeze", "set_paused">>
      [] o = "resume" -> <<"describe", "thaw", "set_running">>
      [] o = "start" -> StartSteps
      [] o = "restart" -> <<"describe", "thaw", "set_running">> \o StopSteps \o StartSteps
      [] o = "kill" -> StopSteps \o <<"delete", "destroy", "forget">>

LInit ==
    /\ cont = "running"
    /\ frozen = "no"
    /\ rstate = "running"
    /\ dset = TRUE
    /\ desc = "running"
    /\ watched = TRUE
    /\ op = [c \in Callers |-> "none"]
    /\ prog = [c \in Callers |-> <<>>]
    /\ last = [c \in Callers |-> "ok"]
    /\ claim = FALSE
    /\ killed = FALSE
    /\ raced = FALSE
    /\ stuck = FALSE
    /\ ops = 0
    /\ faults = 0

world == <<cont, frozen, rstate, dset, desc, watched>>

(* A route is called; stop, pause and kill refuse while the claim is held. *)
Call(c, o) ==
    /\ op[c] = "none"
    /\ ops < MaxOps
    /\ o \in Claimed => ~claim
    /\ ops' = ops + 1
    /\ claim' = (claim \/ o \in Claimed)
    /\ raced' = (raced \/ \E d \in Callers : op[d] # "none")
    /\ op' = [op EXCEPT ![c] = o]
    /\ prog' = [prog EXCEPT ![c] = OpSteps(o)]
    /\ last' = [last EXCEPT ![c] = "ok"]
    /\ UNCHANGED <<world, killed, stuck, faults>>

At(c, s) == prog[c] # <<>> /\ Head(prog[c]) = s
Advance(c) == prog' = [prog EXCEPT ![c] = Tail(@)]

(* An exception ends the operation, except that restart goes on after a    *)
(* failed stop, and kill goes on after anything its stop raises.           *)
InStop(c) ==
    \/ op[c] = "kill" /\ Len(prog[c]) > 3
    \/ op[c] = "restart" /\ Head(prog[c]) = "term"
StopTail(c) == IF op[c] = "kill" THEN SubSeq(prog[c], Len(prog[c]) - 2, Len(prog[c])) ELSE StartSteps
Raise(c) ==
    IF InStop(c)
    THEN /\ prog' = [prog EXCEPT ![c] = StopTail(c)]
         /\ UNCHANGED last
    ELSE /\ prog' = [prog EXCEPT ![c] = <<>>]
         /\ last' = [last EXCEPT ![c] = "error"]

(* A command fails for a reason of its own. *)
Fault == faults < MaxCommandFaults /\ faults' = faults + 1

Describe(c) ==
    /\ At(c, "describe")
    /\ IF desc = "none"
       THEN Raise(c)
       ELSE Advance(c) /\ UNCHANGED last
    /\ UNCHANGED <<world, op, claim, killed, raced, stuck, ops, faults>>

(* runc kill TERM. *)
Term(c) ==
    /\ At(c, "term")
    /\ IF cont = "running"
       THEN Advance(c) /\ UNCHANGED last
       ELSE Raise(c)
    /\ UNCHANGED <<world, op, claim, killed, raced, stuck, ops, faults>>

(* The container stops in the grace period, or on KILL, whose own failure  *)
(* is not looked at.                                                       *)
Settle(c) ==
    /\ At(c, "settle")
    /\ \/ /\ cont' = IF cont = "running" THEN "stopped" ELSE cont
          /\ UNCHANGED faults
       \/ /\ Fault
          /\ UNCHANGED cont
    /\ Advance(c)
    /\ UNCHANGED <<frozen, rstate, dset, desc, watched, op, last, claim,
                   killed, raced, stuck, ops>>

SetStatus(c, step, status) ==
    /\ At(c, step)
    /\ desc' = status
    /\ Advance(c)
    /\ UNCHANGED <<cont, frozen, rstate, dset, watched, op, last, claim,
                   killed, raced, stuck, ops, faults>>

(* A pause that failed is undone by a resume at once and, when that fails, *)
(* another five seconds later; when both fail the error is only logged.    *)
DefensiveResume ==
    \/ /\ Fault
       /\ frozen' = "no"
       /\ rstate' = "running"
       /\ UNCHANGED stuck
    \/ /\ faults + 2 < MaxCommandFaults
       /\ faults' = faults + 3
       /\ frozen' = "late"
       /\ rstate' = "paused"
       /\ stuck' = TRUE

(* runc pause.  A container that does not run makes the description        *)
(* "stopped".  When runc gives up waiting, the kernel may freeze it later  *)
(* on, so it is resumed before the error is raised.                        *)
Freeze(c) ==
    /\ At(c, "freeze")
    /\ \/ /\ cont = "running" /\ rstate = "running"
          /\ frozen' = "yes"
          /\ rstate' = "paused"
          /\ Advance(c)
          /\ UNCHANGED <<desc, last, faults, stuck>>
       \/ /\ cont # "running" \/ rstate = "paused"   \* "container not running"
          /\ desc' = IF desc = "none" THEN desc ELSE "stopped"
          /\ Raise(c)
          /\ UNCHANGED <<frozen, rstate, faults, stuck>>
       \/ /\ cont = "running" /\ rstate = "running"
          /\ DefensiveResume
          /\ Raise(c)
          /\ UNCHANGED desc
    /\ UNCHANGED <<cont, dset, watched, op, claim, killed, raced, ops>>

(* The kernel completes a freeze runc has given up on. *)
KernelSettles ==
    /\ frozen = "late"
    /\ frozen' = "yes"
    /\ UNCHANGED <<cont, rstate, dset, desc, watched, op, prog, last, claim,
                   killed, raced, stuck, ops, faults>>

(* runc resume.  "not paused" is an error too, resolved by looking at the  *)
(* state: running is fine; a container that is gone makes the description  *)
(* "stopped" and the call returns.                                         *)
Thaw(c) ==
    /\ At(c, "thaw")
    /\ \/ /\ cont = "running"
          /\ frozen' = "no"
          /\ rstate' = "running"
          /\ Advance(c)
          /\ UNCHANGED <<desc, last, faults>>
       \/ /\ cont = "running"
          /\ Fault
          /\ Raise(c)
          /\ UNCHANGED <<frozen, rstate, desc>>
       \/ /\ cont = "created"
          /\ Raise(c)
          /\ UNCHANGED <<frozen, rstate, desc, faults>>
       \/ /\ cont \in {"absent", "stopped"}
          /\ IF desc = "none"
             THEN Raise(c) /\ UNCHANGED desc
             ELSE /\ desc' = "stopped"
                  /\ prog' = [prog EXCEPT ![c] = Tail(Tail(@))]
                  /\ UNCHANGED last
          /\ UNCHANGED <<frozen, rstate, faults>>
    /\ UNCHANGED <<cont, dset, watched, op, claim, killed, raced, stuck, ops>>

(* delete_runtime: runc delete -f, with a KILL and a second try. *)
DeleteRuntime(c) ==
    /\ At(c, "delete")
    /\ \/ /\ cont' = "absent"
          /\ frozen' = "no"
          /\ rstate' = "running"
          /\ desc' = IF desc = "none" THEN desc ELSE "stopped"
          /\ Advance(c)
          /\ UNCHANGED <<last, faults>>
       \/ /\ cont # "absent"
          /\ Fault
          /\ Raise(c)
          /\ UNCHANGED <<cont, frozen, rstate, desc>>
    /\ UNCHANGED <<dset, watched, op, claim, killed, raced, stuck, ops>>

Create(c) ==
    /\ At(c, "create")
    /\ \/ /\ cont = "absent" /\ dset
          /\ cont' = "created"
          /\ Advance(c)
          /\ UNCHANGED <<last, faults>>
       \/ /\ cont # "absent" \/ ~dset
          /\ Raise(c)
          /\ UNCHANGED <<cont, faults>>
       \/ /\ cont = "absent" /\ dset
          /\ Fault
          /\ Raise(c)
          /\ UNCHANGED cont
    /\ UNCHANGED <<frozen, rstate, dset, desc, watched, op, claim, killed,
                   raced, stuck, ops>>

(* runc start; on a failure the created container is deleted again, best   *)
(* effort, before the error is raised.                                     *)
Boot(c) ==
    /\ At(c, "boot")
    /\ \/ /\ cont = "created"
          /\ cont' = "running"
          /\ Advance(c)
          /\ UNCHANGED <<desc, last, faults>>
       \/ /\ cont = "created"
          /\ Fault
          /\ cont' = "absent"
          /\ desc' = IF desc = "none" THEN desc ELSE "stopped"
          /\ Raise(c)
       \/ /\ cont # "created"
          /\ cont' = "absent"
          /\ desc' = IF desc = "none" THEN desc ELSE "stopped"
          /\ Raise(c)
          /\ UNCHANGED faults
    /\ UNCHANGED <<frozen, rstate, dset, watched, op, claim, killed, raced,
                   stuck, ops>>

Register(c) ==
    /\ At(c, "register")
    /\ watched' = TRUE
    /\ Advance(c)
    /\ UNCHANGED <<cont, frozen, rstate, dset, desc, op, last, claim, killed,
                   raced, stuck, ops, faults>>

DestroyErrorIgnored(c) ==
    /\ At(c, "destroy")
    /\ \/ dset' = FALSE /\ UNCHANGED faults
       \/ dset /\ Fault /\ UNCHANGED dset
    /\ Advance(c)
    /\ UNCHANGED <<cont, frozen, rstate, desc, watched, op, last, claim, killed,
                   raced, stuck, ops>>

DestroyDataset(c) ==
    /\ At(c, "destroy")
    /\ \/ /\ dset' = FALSE
          /\ Advance(c)
          /\ UNCHANGED <<last, faults>>
       \/ /\ dset
          /\ Fault
          /\ Raise(c)
          /\ UNCHANGED dset
    /\ UNCHANGED <<cont, frozen, rstate, desc, watched, op, claim, killed,
                   raced, stuck, ops>>

(* The metadata file, the table entry and the inspector registration go. *)
ForgetSandbox(c) ==
    /\ At(c, "forget")
    /\ desc' = "none"
    /\ watched' = FALSE
    /\ Advance(c)
    /\ UNCHANGED <<cont, frozen, rstate, dset, op, last, claim, killed, raced,
                   stuck, ops, faults>>

Return(c) ==
    /\ op[c] # "none"
    /\ prog[c] = <<>>
    /\ op' = [op EXCEPT ![c] = "none"]
    /\ claim' = (claim /\ op[c] \notin Claimed)
    /\ killed' = (killed \/ (op[c] = "kill" /\ last[c] = "ok"))
    /\ UNCHANGED <<world, prog, last, raced, stuck, ops, faults>>

CallerStep(c) ==
    \/ \E o \in {"stop", "pause", "resume", "start", "restart", "kill"} : Call(c, o)
    \/ Describe(c) \/ Term(c) \/ Settle(c)
    \/ SetStatus(c, "set_stopped", "stopped")
    \/ SetStatus(c, "set_paused", "paused")
    \/ SetStatus(c, "set_running", "running")
    \/ Freeze(c) \/ Thaw(c) \/ DeleteRuntime(c) \/ Create(c) \/ Boot(c)
    \/ Register(c) \/ DestroyDataset(c) \/ ForgetSandbox(c) \/ Return(c)

LNext == KernelSettles \/ \E c \in Callers : CallerStep(c)

LSpec == LInit /\ [][LNext]_lvars

-----------------------------------------------------------------------------
NoOpInFlight == \A c \in Callers : op[c] = "none"

(* The container, the freezer, the description and the callers have their  *)
(* types, and at most one caller works under the lifecycle claim.          *)
LTypeOK ==
    /\ cont \in {"absent", "created", "running", "stopped"}
    /\ frozen \in {"no", "yes", "late"}
    /\ desc \in {"none", "running", "paused", "stopped"}
    /\ \A c, d \in Callers : op[c] \in Claimed /\ op[d] \in Claimed => c = d

(* A sandbox a kill has returned from, with no operation of another caller *)
(* in flight at any time, leaves no container, no dataset, no description  *)
(* and no registration, whichever commands failed on the way.              *)
KilledIsGone ==
    NoOpInFlight /\ killed /\ ~raced => cont = "absent" /\ ~dset /\ desc = "none" /\ ~watched

(* The same without the restriction: resume, start and restart do not take *)
(* the lifecycle claim, so one of them may write the description, or boot  *)
(* the container, after the kill.                                          *)
KilledStaysGone == NoOpInFlight /\ killed => cont = "absent" /\ desc = "none"

(* A pause that fails never leaves the sandbox frozen behind a description *)
(* that says "running", unless both of its defensive resumes failed.       *)
FailedPauseThaws ==
    NoOpInFlight /\ ~raced /\ ~stuck /\ frozen # "no" => desc # "running"

(* Between operations of one caller, a description that says "running" is  *)
(* of a container that runs, and a container left created by a failed      *)
(* start is deleted again.                                                 *)
RunningRuns ==
    NoOpInFlight /\ ~raced => /\ desc = "running" => cont = "running"
                              /\ cont # "created"

(* What one caller of the lifecycle routes relies on: a killed sandbox is  *)
(* gone, a pause that failed does not leave it frozen, and one described   *)
(* as running runs.                                                        *)
LifecycleIsSound == LTypeOK /\ KilledIsGone /\ FailedPauseThaws /\ RunningRuns

-----------------------------------------------------------------------------
(***************************************************************************)
(* The create transaction of a runc sandbox: the daemon's                  *)
(* launch_sandbox (crab/daemon/server.py) or the SDK's Sandbox._launch     *)
(* (crab/sandbox.py), around RuncRuntime.launch (crab/runtime/runc.py).    *)
(*                                                                         *)
(* A launch acquires its resources one stage after the other.  When a      *)
(* stage raises, the runtime cleans up if it was inside runtime.launch,    *)
(* and the caller cleans up again, releases the lease and unregisters.     *)
(* Every cleanup step is tried whatever the earlier ones did; an error in  *)
(* any of them turns the failure into SandboxCreateCleanupError.           *)
(***************************************************************************)

CONSTANTS
    Launchers,   \* the creates
    SandboxIds,         \* sandbox ids
    Routes,      \* "daemon" and "local": the two callers
    MaxLaunchFaults    \* bound on the commands that fail

VARIABLES
    has,      \* id -> the resources that exist for it
    agenda,     \* launch -> its steps still to do
    phase,    \* "new", "build", "inner" (runtime cleanup), "outer", "done"
    id,       \* the id it creates
    route,    \* its caller
    unclean,  \* some cleanup step of it failed
    result,   \* "none", "ok", "failed" or "cleanup_error"
    ffaults

lavars == <<has, agenda, phase, id, route, unclean, result, ffaults>>

(* The stages of the two callers.  The daemon prepares the dataset before  *)
(* it writes the bundle's config; locally runtime.launch prepares it.      *)
Stages(r) ==
    IF r = "daemon"
    THEN <<"bundle", "image", "lease", "dataset", "config",
           "container", "boot", "items", "file", "watch", "registry">>
    ELSE <<"bundle", "image", "lease", "config", "dataset",
           "container", "boot", "items", "file", "watch", "registry">>

InRuntimeLaunch(r) ==
    {"container", "boot", "items", "file", "watch"} \cup (IF r = "local" THEN {"dataset"} ELSE {})

Resources == {"bundle", "lease", "dataset", "container", "items", "file", "watch", "registry"}

(* cleanup_failed_launch. *)
CleanupSteps == <<"container", "dataset", "file", "items", "watch", "bundle">>
OuterSteps(r) ==
    CleanupSteps \o (IF r = "daemon" THEN <<"lease", "registry">> ELSE <<"lease">>)

LaInit ==
    /\ has = [n \in SandboxIds |-> {}]
    /\ agenda = [l \in Launchers |-> <<>>]
    /\ phase = [l \in Launchers |-> "new"]
    /\ id \in [Launchers -> SandboxIds]
    /\ route \in [Launchers -> Routes]
    /\ unclean = [l \in Launchers |-> FALSE]
    /\ result = [l \in Launchers |-> "none"]
    /\ ffaults = 0

(* An existing bundle directory of the same id is removed first. *)
LaunchBegin(l) ==
    /\ phase[l] = "new"
    /\ phase' = [phase EXCEPT ![l] = "build"]
    /\ agenda' = [agenda EXCEPT ![l] = Stages(route[l])]
    /\ has' = [has EXCEPT ![id[l]] = @ \ {"bundle"}]
    /\ UNCHANGED <<id, route, unclean, result, ffaults>>

(* A stage that succeeds.  The inspector is told last, and its failure is  *)
(* only logged.  Preparing destroys a dataset that is already there.       *)
Stage(l) ==
    /\ phase[l] = "build"
    /\ agenda[l] # <<>>
    /\ LET s == Head(agenda[l])
       IN /\ s = "container" => {"container", "bundle", "dataset"} \cap has[id[l]] = {"bundle", "dataset"}
          /\ s = "boot" => "container" \in has[id[l]]
          /\ \E kept \in IF s = "watch" THEN {{}, {s}} ELSE {{s}} :
                has' = [has EXCEPT ![id[l]] = @ \cup (kept \cap Resources)]
    /\ agenda' = [agenda EXCEPT ![l] = Tail(@)]
    /\ UNCHANGED <<phase, id, route, unclean, result, ffaults>>

(* A stage that raises, having done part of its work or none. *)
StageFails(l) ==
    /\ phase[l] = "build"
    /\ agenda[l] # <<>>
    /\ LET s == Head(agenda[l])
           impossible == \/ s = "container" /\ {"container", "bundle", "dataset"} \cap has[id[l]]
                                                  # {"bundle", "dataset"}
                         \/ s = "boot" /\ "container" \notin has[id[l]]
           inner == s \in InRuntimeLaunch(route[l])
       IN /\ s \notin {"items", "watch", "registry"}
          /\ \/ impossible /\ UNCHANGED <<has, ffaults>>
             \/ /\ ~impossible
                /\ ffaults < MaxLaunchFaults
                /\ ffaults' = ffaults + 1
                /\ \E part \in {{}, {s}} :
                      has' = [has EXCEPT ![id[l]] = @ \cup (part \cap (Resources \ {"lease"}))]
          /\ phase' = [phase EXCEPT ![l] = IF inner THEN "inner" ELSE "outer"]
          /\ agenda' = [agenda EXCEPT ![l] = IF inner THEN CleanupSteps ELSE OuterSteps(route[l])]
    /\ UNCHANGED <<id, route, unclean, result>>

(* One cleanup step: it removes its resource, or its error is collected.   *)
CleanStep(l) ==
    /\ phase[l] \in {"inner", "outer"}
    /\ agenda[l] # <<>>
    /\ LET s == Head(agenda[l])
       IN \/ /\ has' = [has EXCEPT ![id[l]] = @ \ {s}]
             /\ UNCHANGED <<unclean, ffaults>>
          \/ /\ s \in has[id[l]]
             /\ s \notin {"items", "registry"}
             /\ ffaults < MaxLaunchFaults
             /\ ffaults' = ffaults + 1
             /\ unclean' = [unclean EXCEPT ![l] = TRUE]
             /\ UNCHANGED has
    /\ agenda' = [agenda EXCEPT ![l] = Tail(@)]
    /\ UNCHANGED <<phase, id, route, result>>

(* runtime.launch re-raises into its caller, which cleans up again. *)
InnerRaises(l) ==
    /\ phase[l] = "inner"
    /\ agenda[l] = <<>>
    /\ phase' = [phase EXCEPT ![l] = "outer"]
    /\ agenda' = [agenda EXCEPT ![l] = OuterSteps(route[l])]
    /\ UNCHANGED <<has, id, route, unclean, result, ffaults>>

LaunchEnds(l) ==
    /\ phase[l] \in {"build", "outer"}
    /\ agenda[l] = <<>>
    /\ phase' = [phase EXCEPT ![l] = "done"]
    /\ result' = [result EXCEPT ![l] =
                    IF phase[l] = "build" THEN "ok"
                    ELSE IF unclean[l] THEN "cleanup_error" ELSE "failed"]
    /\ UNCHANGED <<has, agenda, id, route, unclean, ffaults>>

LaNext ==
    \E l \in Launchers : \/ LaunchBegin(l) \/ Stage(l) \/ StageFails(l)
                         \/ CleanStep(l) \/ InnerRaises(l) \/ LaunchEnds(l)

LaSpec == LaInit /\ [][LaNext]_lavars

-----------------------------------------------------------------------------
Alone(l) == \A k \in Launchers \ {l} : id[k] # id[l]

(* Every id holds resources only, and a create fails with its own error    *)
(* only when no cleanup step of either cleanup failed.                     *)
LaTypeOK ==
    /\ has \in [SandboxIds -> SUBSET Resources]
    /\ \A l \in Launchers : result[l] = "failed" => ~unclean[l]

(* A create that fails with its own error leaves nothing behind of its id, *)
(* whatever stage failed and however far that stage had come; when it does *)
(* leave something it says so with SandboxCreateCleanupError.              *)
FailureLeavesNothing ==
    \A l \in Launchers : result[l] = "failed" /\ Alone(l) => has[id[l]] = {}

(* A create that returns leaves a sandbox with its bundle, lease, dataset, *)
(* container, description, metadata file and registry entry.               *)
SuccessIsComplete ==
    \A l \in Launchers : result[l] = "ok" /\ Alone(l) => Resources \ {"watch"} \subseteq has[id[l]]

(* A create that has returned keeps its container whatever other creates   *)
(* do.  A second create of the same id removes the first one's bundle and, *)
(* when it fails, its container, dataset and lease.                        *)
CreatedIsKept ==
    \A l \in Launchers : result[l] = "ok" => {"container", "bundle"} \subseteq has[id[l]]

(* A create is all or nothing. *)
LaunchIsSound == LaTypeOK /\ FailureLeavesNothing /\ SuccessIsComplete

(* A sandbox is created whole or not at all, and from then on is what its  *)
(* descriptor says until it is killed.                                     *)
RuntimesAreSound == LifecycleIsSound /\ LaunchIsSound
=============================================================================
