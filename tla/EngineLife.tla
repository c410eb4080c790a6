----------------------------- MODULE EngineLife -----------------------------
(***************************************************************************)
(* The life of one Engine (crab/engine.py): _start brings up, in order and *)
(* under the engine lock, what the configuration asks for (a temporary     *)
(* storage directory, the sandbox bridge, the host inspector, the LLM      *)
(* forwarder and interceptor, the egress proxy and the REDIRECT rule that  *)
(* sends sandbox traffic to it, the system's threads), and stop takes it   *)
(* down again.  stop reads the list of sandboxes under the lock, kills     *)
(* them outside it and takes the lock again to release the resources, so   *)
(* several stops, the clients' launches and the clients' kills interleave  *)
(* with it.  A step that raises is logged by stop and ends _start.         *)
(***************************************************************************)
EXTENDS Naturals, FiniteSets

CONSTANTS
    Stoppers,         \* threads that call Engine.stop()
    EngineBoxes,      \* sandboxes clients launch on the engine
    NoStopper,        \* "nobody" and "a client", for the killer of a sandbox
    Client,
    MaxStepFaults     \* bound: steps of _start and stop that raise

ASSUME NoStopperAssumption ==
    /\ NoStopper \notin Stoppers \cup {Client}
    /\ Client \notin Stoppers

Resources == {"tempdir", "bridge", "inspector", "forwarder", "interceptor",
              "proxy", "redirect", "threads"}

VARIABLES
    cfg,         \* the resources the configuration asks for
    net,         \* runtime runc with enable_sandbox_network
    at,          \* the resource _start brings up next; "up" or "raised" at its end
    started,     \* _started
    fields,      \* resources an attribute of the engine refers to
    alive,       \* resources that exist on the host
    elock,       \* the stop that holds _lock for its second block
    spc,         \* per stop: "idle", "kill", a resource to release, "done"
    snap,        \* per stop: sandboxes of its list it has not killed yet
    box,         \* per sandbox: "none", "leasing", "launching", "live", "gone", "lost"
    killer,      \* per sandbox: who set _closed
    strays,      \* sandboxes whose lease was made after the network was cleaned up
    efaults

engvars == <<cfg, net, at, started, fields, alive>>
elvars == <<engvars, elock, spc, snap, box, killer, strays, efaults>>

ELTypeOK ==
    /\ cfg \in SUBSET Resources /\ net \in BOOLEAN
    /\ at \in Resources \cup {"up", "raised"} /\ started \in BOOLEAN
    /\ fields \in SUBSET Resources /\ alive \in SUBSET Resources
    /\ elock \in Stoppers \cup {NoStopper}
    /\ spc \in [Stoppers -> Resources \cup {"idle", "kill", "done"}]
    /\ snap \in [Stoppers -> SUBSET EngineBoxes]
    /\ box \in [EngineBoxes -> {"none", "leasing", "launching", "live", "gone", "lost"}]
    /\ killer \in [EngineBoxes -> Stoppers \cup {NoStopper, Client}]
    /\ strays \in SUBSET EngineBoxes /\ efaults \in Nat

\* EngineConfig: forwarder and interceptor come together, proxy and rule do;
\* the threads are always asked for.  An egress proxy without a sandbox
\* network is a configuration _start refuses.
Configured ==
    /\ "threads" \in cfg
    /\ "forwarder" \in cfg <=> "interceptor" \in cfg
    /\ "proxy" \in cfg <=> "redirect" \in cfg
    /\ "bridge" \in cfg <=> net /\ ("interceptor" \in cfg \/ "proxy" \in cfg)

ELInit ==
    /\ cfg \in SUBSET Resources /\ net \in BOOLEAN /\ Configured
    /\ at = "tempdir" /\ started = FALSE /\ fields = {} /\ alive = {}
    /\ elock = NoStopper
    /\ spc = [s \in Stoppers |-> "idle"] /\ snap = [s \in Stoppers |-> {}]
    /\ box = [b \in EngineBoxes |-> "none"] /\ killer = [b \in EngineBoxes |-> NoStopper]
    /\ strays = {} /\ efaults = 0

\* The rule before the port it sends traffic to.
UpRedirectFirst == [tempdir |-> "bridge", bridge |-> "inspector", inspector |-> "forwarder",
            forwarder |-> "interceptor", interceptor |-> "redirect", redirect |-> "proxy",
            proxy |-> "threads", threads |-> "up"]

UpAfter == [tempdir |-> "bridge", bridge |-> "inspector", inspector |-> "forwarder",
            forwarder |-> "interceptor", interceptor |-> "proxy", proxy |-> "redirect",
            redirect |-> "threads", threads |-> "up"]

DownAfter == [redirect |-> "proxy", proxy |-> "interceptor", interceptor |-> "forwarder",
              forwarder |-> "bridge", bridge |-> "threads", threads |-> "inspector",
              inspector |-> "tempdir", tempdir |-> "done"]

Refused == at = "bridge" /\ "proxy" \in cfg /\ ~net

\* _start up to the next resource.  The network manager is kept even when the
\* bridge is left for the first lease to create.  The last step is
\* self._system.start() and self._started = True.
StartStage ==
    /\ at \in Resources /\ ~Refused
    /\ LET new == {at} \cap cfg
       IN  /\ alive' = alive \cup new
           /\ fields' = fields \cup new \cup (IF at = "bridge" /\ net THEN {"bridge"} ELSE {})
    /\ at' = UpAfter[at]
    /\ started' = (at = "threads")
    /\ UNCHANGED <<cfg, net, elock, spc, snap, box, killer, strays, efaults>>

\* An exception leaves _start with what it brought up so far.  A bridge may be
\* left half set up; an inspector that does not answer is stopped again.
StartRaises ==
    /\ at \in Resources
    /\ Refused \/ efaults < MaxStepFaults
    /\ efaults' = IF Refused THEN efaults ELSE efaults + 1
    /\ alive' \in {alive, alive \cup ({at} \cap cfg \cap {"bridge"})}
    /\ at' = "raised"
    /\ UNCHANGED <<cfg, net, started, fields, elock, spc, snap, box, killer, strays>>

\* A client's launch.  It needs the runtime, which stop does not clear, and
\* reads the network manager once.
LaunchBegins(b) ==
    /\ at = "up" /\ box[b] = "none"
    /\ net => "bridge" \in fields
    /\ box' = [box EXCEPT ![b] = IF net THEN "leasing" ELSE "launching"]
    /\ UNCHANGED <<engvars, elock, spc, snap, killer, strays, efaults>>

\* The lease creates the bridge if it is not there, also when stop has cleaned
\* the manager up since it was read.
LeaseNetwork(b) ==
    /\ box[b] = "leasing"
    /\ box' = [box EXCEPT ![b] = "launching"]
    /\ alive' = alive \cup {"bridge"}
    /\ strays' = IF "bridge" \in fields THEN strays ELSE strays \cup {b}
    /\ UNCHANGED <<cfg, net, at, started, fields, elock, spc, snap, killer, efaults>>

\* _register_sandbox takes another lock and does not look at _started.
RegisterSandbox(b) ==
    /\ box[b] = "launching"
    /\ box' = [box EXCEPT ![b] = "live"]
    /\ UNCHANGED <<engvars, elock, spc, snap, killer, strays, efaults>>

\* Sandbox.kill up to _closed; only the first caller goes on.
ClientKills(b) ==
    /\ box[b] = "live" /\ killer[b] = NoStopper
    /\ killer' = [killer EXCEPT ![b] = Client]
    /\ UNCHANGED <<engvars, elock, spc, snap, box, strays, efaults>>

\* The rest of Sandbox.kill: the runtime deletes the sandbox or fails to (the
\* error is logged), and the sandbox is unregistered either way.
Deleted(b) ==
    \/ box' = [box EXCEPT ![b] = "gone"] /\ UNCHANGED efaults
    \/ /\ efaults < MaxStepFaults
       /\ box' = [box EXCEPT ![b] = "lost"] /\ efaults' = efaults + 1

ClientKillEnds(b) ==
    /\ killer[b] = Client /\ box[b] = "live"
    /\ Deleted(b)
    /\ UNCHANGED <<engvars, elock, spc, snap, killer, strays>>

\* stop(): the first block under the lock.
StopBegins(s) ==
    /\ at \in {"up", "raised"} /\ spc[s] = "idle" /\ elock = NoStopper
    /\ spc' = [spc EXCEPT ![s] = IF started THEN "kill" ELSE "done"]
    /\ snap' = [snap EXCEPT ![s] = {b \in EngineBoxes : started /\ box[b] = "live"}]
    /\ UNCHANGED <<engvars, elock, box, killer, strays, efaults>>

\* The loop over the sandboxes: a kill someone else has begun returns at once.
\* The list is killed one by one.
StopKills(s, b) ==
    /\ spc[s] = "kill" /\ b \in snap[s]
    /\ \A o \in snap[s] : killer[o] # s
    /\ IF killer[b] = NoStopper
       THEN killer' = [killer EXCEPT ![b] = s] /\ UNCHANGED snap
       ELSE snap' = [snap EXCEPT ![s] = @ \ {b}] /\ UNCHANGED killer
    /\ UNCHANGED <<engvars, elock, spc, box, strays, efaults>>

StopKillEnds(s, b) ==
    /\ spc[s] = "kill" /\ b \in snap[s] /\ killer[b] = s
    /\ Deleted(b)
    /\ snap' = [snap EXCEPT ![s] = @ \ {b}]
    /\ UNCHANGED <<engvars, elock, spc, killer, strays>>

\* The second block takes the lock again.
StopLocks(s) ==
    /\ spc[s] = "kill" /\ snap[s] = {} /\ elock = NoStopper
    /\ elock' = s
    /\ spc' = [spc EXCEPT ![s] = "redirect"]
    /\ UNCHANGED <<engvars, snap, box, killer, strays, efaults>>

\* One resource: released if the engine still refers to it.  A release that
\* raises is logged and the reference dropped all the same.  The rule's own
\* reference is the proxy's.
Release(r) ==
    \/ /\ alive' = (IF r \in fields THEN alive \ {r} ELSE alive)
       /\ UNCHANGED efaults
    \/ /\ r \in fields /\ efaults < MaxStepFaults
       /\ efaults' = efaults + 1 /\ UNCHANGED alive

StopReleases(s) ==
    /\ elock = s /\ spc[s] \in Resources
    /\ Release(spc[s])
    /\ fields' = fields \ {spc[s]}
    /\ spc' = [spc EXCEPT ![s] = DownAfter[spc[s]]]
    /\ started' = (started /\ spc[s] # "tempdir")
    /\ elock' = IF spc[s] = "tempdir" THEN NoStopper ELSE elock
    /\ UNCHANGED <<cfg, net, at, snap, box, killer, strays>>

ELNext ==
    \/ StartStage \/ StartRaises
    \/ \E b \in EngineBoxes : LaunchBegins(b) \/ LeaseNetwork(b) \/ RegisterSandbox(b)
                             \/ ClientKills(b) \/ ClientKillEnds(b)
    \/ \E s \in Stoppers : StopBegins(s) \/ StopLocks(s) \/ StopReleases(s)
    \/ \E s \in Stoppers, b \in EngineBoxes : StopKills(s, b) \/ StopKillEnds(s, b)

ELSpec == ELInit /\ [][ELNext]_elvars

\* Engine.stop() of a started engine: when it has returned and no step raised,
\* nothing it brought up exists any more, whichever of several stops did the
\* releasing, but for a bridge that a launch still under way has made anew.
StopIsComplete ==
    \A s \in Stoppers :
        spc[s] = "done" /\ at = "up" /\ efaults = 0
            => ~started /\ alive \subseteq (IF strays = {} THEN {} ELSE {"bridge"})

\* The REDIRECT rule never sends sandbox traffic to a port nobody listens on:
\* the proxy starts before the rule and outlives it, unless a step raised.
RedirectHasProxy ==
    "redirect" \in alive /\ efaults = 0 => "proxy" \in alive

\* A sandbox of stop's list is deleted before a resource it stands on is
\* released, unless its kill was already under way on another thread.
KilledBeforeRelease ==
    \A s \in Stoppers, b \in EngineBoxes :
        elock = s /\ killer[b] = s /\ efaults = 0 => box[b] = "gone"

\* The three together: what an orderly stop leaves and what it never tears down
\* too early.
StopIsOrderly == StopIsComplete /\ RedirectHasProxy /\ KilledBeforeRelease

\* Not so with the other thread's kill: stop does not wait for it.
NoKillOverlapsStop ==
    \A s \in Stoppers, b \in EngineBoxes : elock = s /\ killer[b] # NoStopper => box[b] # "live"

\* Nor for a sandbox registered after the list was read.
StopKillsEverySandbox ==
    \A s \in Stoppers, b \in EngineBoxes :
        spc[s] = "done" /\ at = "up" /\ efaults = 0 => box[b] # "live"

\* Nor is a launch still under way kept from making the bridge anew.
NoStrays == strays = {}

\* Nor does a start that raises take down what it brought up, and stop()
\* returns at once.
FailedStartLeavesNothing == at = "raised" => alive = {}
=============================================================================
