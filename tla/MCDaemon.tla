------------------------------ MODULE MCDaemon ------------------------------
(***************************************************************************)
(* The daemon, three instances one of which (part) a behaviour is about:   *)
(* one sandbox, two clients on all its routes and a third that runs        *)
(* commands or deletes a checkpoint; idle reclaim against two tenants'     *)
(* commands; and the engine's own start and stop.                          *)
(***************************************************************************)
EXTENDS Daemon, EngineLife, TLC

CONSTANTS t1, t2, t3, s1, s2, i1, i2

MCThreads == {t1, t2, t3, s1, s2}
MCActivities == {t1, t2}
MCSweeps == {s1, s2}
MCIds == {i1, i2}
\* fork and restart differ from checkpoint and start in nothing but the name.
MCOps == {"exec", "action", "kill", "stop", "pause", "checkpoint", "checkpoint_stop",
          "resume", "start", "restore", "delete_checkpoint"}
Sym == Permutations({t1, t2}) \cup Permutations(MCSweeps) \cup Permutations(MCIds)

VARIABLE part

\* An id matters to a thread that serves a client or a sweep.
DaemonInit ==
    /\ part \in {"routes", "idle", "engine"}
    /\ part # "engine" => cfg = {"threads"} /\ net = FALSE
    /\ IInit /\ ELInit
    /\ \A t \in IF part = "routes" THEN MCSweeps ELSE MCThreads : did[t] = did[t1]

DaemonNext ==
    \/ /\ part = "routes" /\ UNCHANGED <<part, elvars, gateVars, episode, gcrash>>
       /\ \E t \in {t1, t2, t3} : Dispatch(t) \/ Handler(t) \/ Background(t)
       /\ dop'[t3] \in {"none", "exec", "action", "delete_checkpoint"}
    \/ part = "idle" /\ INext /\ UNCHANGED <<part, elvars>>
    \/ part = "engine" /\ ELNext /\ UNCHANGED <<part, ivars>>

DaemonSpec == DaemonInit /\ [][DaemonNext]_<<part, ivars, elvars>>

\* A sandbox is taken down only with its work saved and nobody using it: the
\* daemon's checkpoint-and-stop, and the gateway's idle reclaim, which dumps
\* once in an idle episode; a route that ends leaves the gate open.
StopsAreSafe == ReclaimIsSafe /\ StopKeepsWork /\ GateDrained
=============================================================================
