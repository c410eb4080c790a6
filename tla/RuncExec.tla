------------------------------- MODULE RuncExec -------------------------------
(***************************************************************************)
(* RuncRuntime.exec, stream_exec and cancel_active_execs: what happens to  *)
(* the processes of a command run in a sandbox.  A timed exec runs in a    *)
(* child cgroup of its own (its scope), so that a timeout can kill all of  *)
(* it; the host inspector only watches the parent cgroup, so a change made *)
(* from the scope is unseen until the exec marks the sandbox changed.      *)
(*                                                                         *)
(* todo[e] is what is left of the finally/except path the exec's thread is *)
(* on.  A payload is a root process and one child it may fork.             *)
(***************************************************************************)
EXTENDS Naturals, Sequences, FiniteSets

CONSTANTS Execs,        \* calls of exec or stream_exec on one sandbox
          Timed,        \* those with a timeout
          Streams,      \* those that are stream_exec
          Captured      \* those with capture_output

Procs == {"root", "kid"}

VARIABLES at,           \* at[e][p]: none, scope, parent (cgroups) or dead
          holds,        \* holds[e]: the child inherited the stdout pipe
          client,       \* the host-side "runc exec" process
          pidfile,      \* runc has published the payload's pid
          scope,        \* the exec's child cgroup exists
          active,       \* _active_execs
          todo, fail,   \* cleanup_failure
          why,          \* what the exec's thread leaves communicate() with
          outcome,      \* what the caller has been told
          unseen,       \* a change made from the scope that is not marked
          lost,         \* the mark failed, a scope kept processes: logged only
          cpc, csnap    \* cancel_active_execs and the entries it has left

xvars == <<at, holds, client, pidfile, scope, active, todo, fail, why, outcome,
           unseen, lost, cpc, csnap>>

XInit ==
    /\ at = [e \in Execs |-> [p \in Procs |-> "none"]]
    /\ holds \in [Execs -> BOOLEAN]
    /\ client = [e \in Execs |-> "none"]
    /\ pidfile = {} /\ scope = {} /\ active = {}
    /\ todo = [e \in Execs |-> <<"prepare">>]
    /\ fail = {} /\ lost = {} /\ unseen = {}
    /\ why = [e \in Execs |-> "none"]
    /\ outcome = [e \in Execs |-> "none"]
    /\ cpc = "idle" /\ csnap = {}

Alive(e) == {p \in Procs : at[e][p] \in {"scope", "parent"}}
InScope(e) == {p \in Procs : at[e][p] = "scope"}
\* Processes with the write end of the pipe communicate() reads.
Holders(e) == IF e \notin Captured THEN {}
              ELSE {p \in Alive(e) : p = "root" \/ holds[e]}

payload == <<at, holds, client, pidfile, unseen>>
bookkeeping == <<todo, scope, active, fail, why, outcome, lost>>
cancelVars == <<cpc, csnap>>

----------------------------------------------------------------------------
(* The payload                                                             *)

\* runc exec starts the payload where --cgroup says and writes --pid-file.
PayloadStart(e) ==
    /\ client[e] = "starting"
    /\ client' = [client EXCEPT ![e] = "attached"]
    /\ at' = [at EXCEPT ![e]["root"] = IF e \in Timed THEN "scope" ELSE "parent"]
    /\ pidfile' = pidfile \cup {e}
    /\ UNCHANGED <<holds, unseen, bookkeeping, cancelVars>>

PayloadFork(e) ==
    /\ "root" \in Alive(e) /\ at[e]["kid"] = "none"
    /\ at' = [at EXCEPT ![e]["kid"] = at[e]["root"]]
    /\ UNCHANGED <<holds, client, pidfile, unseen, bookkeeping, cancelVars>>

\* The payload's root ends the client with it; runc returns its exit code.
PayloadExit(e, p) ==
    /\ p \in Alive(e)
    /\ at' = [at EXCEPT ![e][p] = "dead"]
    /\ client' = IF p = "root" THEN [client EXCEPT ![e] = "gone"] ELSE client
    /\ UNCHANGED <<holds, pidfile, unseen, bookkeeping, cancelVars>>

\* A change to a file; the monitor attributes it by the writer's cgroup.
PayloadWrite(e) ==
    /\ InScope(e) # {} /\ e \notin unseen
    /\ unseen' = unseen \cup {e}
    /\ UNCHANGED <<at, holds, client, pidfile, bookkeeping, cancelVars>>

----------------------------------------------------------------------------
(* The steps of an exec's thread                                           *)

Then(e) == todo' = [todo EXCEPT ![e] = Tail(@)]
Doing(e, step) == todo[e] # <<>> /\ Head(todo[e]) = step

\* A timeout with no cgroup to enforce it refuses to run the command.
PrepareExecScope(e) ==
    /\ Doing(e, "prepare")
    /\ \/ /\ todo' = [todo EXCEPT ![e] = <<"spawn">>]
          /\ scope' = IF e \in Timed THEN scope \cup {e} ELSE scope
          /\ UNCHANGED outcome
       \/ /\ e \in Timed
          /\ todo' = [todo EXCEPT ![e] = <<>>]
          /\ outcome' = [outcome EXCEPT ![e] = "refused"]
          /\ UNCHANGED scope
    /\ UNCHANGED <<payload, active, fail, why, lost, cancelVars>>

Popen(e) ==
    /\ Doing(e, "spawn")
    /\ \/ /\ client' = [client EXCEPT ![e] = "starting"]
          /\ todo' = [todo EXCEPT ![e] = <<"register", "wait">>]
          /\ UNCHANGED <<scope, outcome>>
       \/ /\ scope' = scope \ {e}
          /\ todo' = [todo EXCEPT ![e] = <<>>]
          /\ outcome' = [outcome EXCEPT ![e] = "failed"]
          /\ UNCHANGED client
    /\ UNCHANGED <<at, holds, pidfile, unseen, active, fail, why, lost, cancelVars>>

RegisterActiveExec(e) ==
    /\ Doing(e, "register")
    /\ active' = active \cup {e}
    /\ Then(e)
    /\ UNCHANGED <<payload, scope, fail, why, outcome, lost, cancelVars>>

Abort == <<"kill", "settle", "reap", "eof", "verify">>

ExecSteps(reason) ==
    CASE reason = "exited"  -> <<"unregister", "release", "mark", "report">>
      [] reason = "timeout" -> Abort \o <<"unregister", "mark", "report">>

\* stream_exec yields the exit status before its finally block runs; a caller
\* that stops reading closes the generator, and is told nothing.
StreamSteps(reason) ==
    CASE reason = "exited"  -> <<"release", "report", "unregister", "mark">>
      [] reason = "timeout" -> Abort \o <<"unregister", "mark", "report">>
      [] reason = "closed"  -> <<"unregister">> \o Abort \o <<"mark">>

Steps(e, reason) == IF e \in Streams THEN StreamSteps(reason) ELSE ExecSteps(reason)

\* communicate() returns when the client is gone and its pipe is closed.
WaitClient(e) ==
    /\ Doing(e, "wait")
    /\ \E reason \in {"exited", "timeout", "closed"} :
          /\ reason = "exited" => client[e] = "gone" /\ Holders(e) = {}
          /\ reason = "timeout" => e \in Timed
          /\ reason = "closed" => e \in Streams /\ client[e] # "gone"
          /\ why' = [why EXCEPT ![e] = reason]
          /\ todo' = [todo EXCEPT ![e] = Steps(e, reason)]
    /\ UNCHANGED <<payload, scope, active, fail, outcome, lost, cancelVars>>

\* What _terminate_exec_payload signals: the scope, or for an untimed exec the
\* tree below the published pid, which a child whose parent died has left.
Targets(e) ==
    IF e \in Timed THEN InScope(e)
    ELSE IF e \in pidfile /\ "root" \in Alive(e) THEN Alive(e) ELSE {}

\* A signalled process may be slow to die; what was not there is not signalled.
Kill(e) ==
    \E dead \in SUBSET Targets(e) :
       /\ at' = [at EXCEPT ![e] = [p \in Procs |-> IF p \in dead THEN "dead" ELSE @[p]]]
       /\ client' = IF "root" \in dead THEN [client EXCEPT ![e] = "gone"] ELSE client

\* The wait that ends _terminate_exec_payload.  Without a cgroup it asks for
\* _descendant_pids(root), which holds the root's pid dead or alive.
DescendantPids(e) == {"root"} \cup Alive(e)

Drained(e) == IF e \in Timed THEN InScope(e) = {} ELSE DescendantPids(e) = {}

TerminateKill(e) ==
    /\ Doing(e, "kill")
    /\ Kill(e)
    /\ Then(e)
    /\ UNCHANGED <<holds, pidfile, unseen, scope, active, fail, why, outcome, lost, cancelVars>>

TerminateSettle(e) ==
    /\ Doing(e, "settle")
    /\ fail' = IF Drained(e) THEN fail ELSE fail \cup {e}
    /\ Then(e)
    /\ UNCHANGED <<payload, scope, active, why, outcome, lost, cancelVars>>

\* terminate(), then kill(): the client is gone, and can start nothing.
ReapClient(e) ==
    /\ Doing(e, "reap")
    /\ client' = [client EXCEPT ![e] = "gone"]
    /\ Then(e)
    /\ UNCHANGED <<at, holds, pidfile, unseen, scope, active, fail, why, outcome, lost,
                   cancelVars>>

\* The last communicate() has no timeout: it waits for the pipe.
ReadToEof(e) ==
    /\ Doing(e, "eof")
    /\ Holders(e) = {}
    /\ Then(e)
    /\ UNCHANGED <<payload, scope, active, fail, why, outcome, lost, cancelVars>>

\* Only an empty cgroup can be removed.
RemoveScope(e) ==
    /\ scope' = IF InScope(e) = {} THEN scope \ {e} ELSE scope
    /\ lost' = IF InScope(e) = {} THEN lost ELSE lost \cup {e}

\* Mutant: the drain that was waited for is not looked at again.
VerifyNothing(e) ==
    /\ Doing(e, "verify")
    /\ RemoveScope(e)
    /\ pidfile' = pidfile \ {e}
    /\ Then(e)
    /\ UNCHANGED <<at, holds, client, unseen, active, fail, why, outcome, cancelVars>>

VerifyAborted(e) ==
    /\ Doing(e, "verify")
    /\ fail' = IF InScope(e) = {} THEN fail ELSE fail \cup {e}
    /\ RemoveScope(e)
    /\ pidfile' = pidfile \ {e}
    /\ Then(e)
    /\ UNCHANGED <<at, holds, client, unseen, active, why, outcome, cancelVars>>

\* A child that was left running moves to the container's cgroup.
ReleaseScope(e) ==
    /\ Doing(e, "release")
    /\ pidfile' = pidfile \ {e}
    /\ \/ /\ at' = [at EXCEPT ![e] = [p \in Procs |->
                       IF @[p] = "scope" THEN "parent" ELSE @[p]]]
          /\ scope' = scope \ {e}
          /\ lost' = lost
       \/ /\ InScope(e) # {}
          /\ at' = at
          /\ RemoveScope(e)
    /\ Then(e)
    /\ UNCHANGED <<holds, client, unseen, active, fail, why, outcome, cancelVars>>

UnregisterActiveExec(e) ==
    /\ Doing(e, "unregister")
    /\ active' = active \ {e}
    /\ Then(e)
    /\ UNCHANGED <<payload, scope, fail, why, outcome, lost, cancelVars>>

MarkFilesystemChanged(e) ==
    /\ Doing(e, "mark")
    /\ \/ unseen' = unseen \ {e} /\ lost' = lost
       \/ e \in Timed /\ lost' = lost \cup {e} /\ unseen' = unseen
    /\ Then(e)
    /\ UNCHANGED <<at, holds, client, pidfile, scope, active, fail, why, outcome, cancelVars>>

Report(e) ==
    /\ Doing(e, "report")
    /\ outcome' = [outcome EXCEPT ![e] =
          IF why[e] = "exited" THEN "result"
          ELSE IF e \in fail THEN "cleanup_error" ELSE "timeout"]
    /\ Then(e)
    /\ UNCHANGED <<payload, scope, active, fail, why, lost, cancelVars>>

ExecStep(e) ==
    \/ PrepareExecScope(e) \/ Popen(e) \/ RegisterActiveExec(e) \/ WaitClient(e)
    \/ TerminateKill(e) \/ TerminateSettle(e) \/ ReapClient(e) \/ ReadToEof(e)
    \/ VerifyAborted(e) \/ ReleaseScope(e) \/ UnregisterActiveExec(e)
    \/ MarkFilesystemChanged(e) \/ Report(e)

----------------------------------------------------------------------------
(* cancel_active_execs, before a dump                                      *)

CancelSnapshot ==
    /\ cpc = "idle"
    /\ csnap' = active
    /\ cpc' = "drain"
    /\ UNCHANGED <<payload, bookkeeping>>

\* An entry's payload is drained (a failure is logged) ...
CancelDrain(e) ==
    /\ cpc = "drain" /\ e \in csnap
    /\ Kill(e)
    /\ cpc' = e
    /\ UNCHANGED <<holds, pidfile, unseen, csnap, bookkeeping>>

\* ... and then its client is terminated.
CancelClient(e) ==
    /\ cpc = e
    /\ client' = [client EXCEPT ![e] = "gone"]
    /\ cpc' = "drain"
    /\ csnap' = csnap \ {e}
    /\ UNCHANGED <<at, holds, pidfile, unseen, bookkeeping>>

XNext ==
    \/ \E e \in Execs :
          \/ PayloadStart(e) \/ PayloadFork(e) \/ PayloadWrite(e)
          \/ CancelDrain(e) \/ CancelClient(e)
          \/ \E p \in Procs : PayloadExit(e, p)
          \/ ExecStep(e)
    \/ CancelSnapshot

XSpec == XInit /\ [][XNext]_xvars

----------------------------------------------------------------------------
(* Properties                                                              *)

\* The variables' types; only a timed exec has a child cgroup.
XTypeOK ==
    /\ at \in [Execs -> [Procs -> {"none", "scope", "parent", "dead"}]]
    /\ client \in [Execs -> {"none", "starting", "attached", "gone"}]
    /\ outcome \in [Execs -> {"none", "refused", "failed", "result", "timeout", "cleanup_error"}]
    /\ scope \subseteq Timed /\ unseen \subseteq Timed
    /\ active \cup pidfile \cup fail \cup lost \cup csnap \subseteq Execs

\* SandboxExecTimeout promises that the command is over: nothing of it runs,
\* not even a payload that runc was still starting when the timeout fired.
\* Whatever is left is reported as SandboxExecCleanupError (runc.py 1636-1663).
TimeoutLeavesNothing ==
    \A e \in Execs : outcome[e] = "timeout" => Alive(e) = {} /\ e \notin scope

\* When exec has answered, no change its payload made from the child cgroup
\* is still unknown to the inspector, even one made by a child it left running
\* (runc.py 1557-1583), unless a warning was logged.
IsolatedIsMarked ==
    \A e \in Execs \ Streams :
        outcome[e] # "none" /\ e \in unseen => e \in lost

\* The same of stream_exec, whose caller reads the exit status first.
StreamIsMarked ==
    \A e \in Streams : outcome[e] # "none" /\ e \in unseen => e \in lost

\* An exec that has ended, however it ended, is out of _active_execs and has
\* left no pid file and no cgroup behind (a populated one is logged).
ExecLeavesNoArtifacts ==
    \A e \in Execs : todo[e] = <<>> =>
        e \notin active \cup pidfile /\ (e \in scope => e \in lost)

\* "exec payload tree remained alive" (runc.py 1513) is raised only when some
\* process of the payload is alive.
CleanupErrorIsReal ==
    [][\A e \in Execs : e \in fail' \ fail => Alive(e) # {}]_xvars

\* cancel_active_execs has dealt with an exec: nothing of it outlives the
\* client (runc.py 2131-2133).
CancelDrainsFirst ==
    [][\A e \in Execs : CancelClient(e) => Alive(e) = {}]_xvars

\* However an exec ends it leaves no process past its deadline, no file and no
\* cgroup, and no change the inspector does not know of.
ExecsAreSound == TimeoutLeavesNothing /\ IsolatedIsMarked /\ ExecLeavesNoArtifacts
=============================================================================
