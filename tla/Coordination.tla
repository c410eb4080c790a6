---------------------------- MODULE Coordination ----------------------------
(***************************************************************************)
(* How CrabSystem (crab/system.py) coordinates checkpoints with gated LLM  *)
(* responses, for one sandbox: the handlers of Interceptor and their       *)
(* request-state store, the monitor thread, and the coordination pool.     *)
(*                                                                         *)
(* Every acquisition of a lock that another thread can be seen to race     *)
(* with is a step of its own.  Reading the gate and updating               *)
(* _interceptor_pending is one step, since every use of that set holds     *)
(* _interceptor_lock.  CrabSystem.start has run: the gate is enabled, the  *)
(* monitor and the pool are running, and a dispatch can always submit.     *)
(***************************************************************************)
EXTENDS Interceptor, Sequences

CONSTANT Workers   \* the threads of the coordination pool

ASSUME WorkersAssumption == Workers # {}

VARIABLES inflight,    \* requests with an active context in the store
          changes,     \* the store's queue of state changes
          signalled,   \* the sandbox is in _interceptor_pending
          active,      \* the sandbox is in _active_coordination
          queued,      \* tasks submitted to the pool and not started
          window,      \* "txn" while it is in _active_txns, "merge" in _active_merges
          wpc,         \* where each pool thread is
          wreq,        \* the pending entry its pass has captured, if any
          mpc,         \* where the monitor thread is
          mreq         \* the request whose start it is looking at, if any

storeVars == <<inflight, changes>>
systemVars == <<signalled, active, queued>>
workerVars == <<wpc, wreq>>
monitorVars == <<mpc, mreq>>
cvars == <<vars, storeVars, systemVars, window, workerVars, monitorVars>>

WorkerPc == {"idle", "check", "take", "flow", "job", "release", "refresh",
             "leave", "tailRefresh", "tailCheck", "tailPeek", "tailDispatch"}
MonitorPc == {"wait", "live", "livePeek", "liveDispatch",
              "sweep", "check", "peek", "dispatch"}
Change == [type : {"request_start", "request_end"}, request : Requests]

\* The state start() leaves: the gate enabled and empty, both threads waiting.
CInit == /\ enabled = TRUE /\ GateEmpty /\ HandlerInit
         /\ inflight = {} /\ changes = <<>>
         /\ signalled = FALSE /\ active = FALSE /\ queued = 0
         /\ window = "none"
         /\ wpc = [w \in Workers |-> "idle"] /\ wreq = [w \in Workers |-> {}]
         /\ mpc = "wait" /\ mreq = {}

-----------------------------------------------------------------------------
(* Pieces shared by the threads. *)

\* Automatic checkpoints are off inside a transaction and inside a merge.
Suppressed == window # "none"

\* Mutant: the sandbox is added whatever the gate holds.
RefreshAlwaysAdds == signalled' = TRUE /\ UNCHANGED <<active, queued>>

\* _refresh_interceptor_pending_state
Refresh == /\ signalled' = (pending # {})
           /\ UNCHANGED <<active, queued>>

\* _should_coordinate_any_pending_request, once suppression is ruled out.
CoordinationDue == inflight # {} /\ pending # {}

\* Mutant: a dispatch does not look for a task that is already active.
DispatchAlways == /\ active' = TRUE
                  /\ queued' = queued + 1
                  /\ UNCHANGED signalled

\* _dispatch_coordination: at most one task per sandbox.
Dispatch == /\ active' = TRUE
            /\ queued' = IF active THEN queued ELSE queued + 1
            /\ UNCHANGED signalled

-----------------------------------------------------------------------------
(* The handlers, with what their steps do outside the gate. *)

\* mark_request_start and mark_request_end queue a change for the monitor.
MarkRequest(type, r) == changes' = Append(changes, [type |-> type, request |-> r])

HandlerStart(r) == /\ Receive(r)
                   /\ inflight' = inflight \cup {r}
                   /\ MarkRequest("request_start", r)
                   /\ UNCHANGED <<gateVars, systemVars>>

HandlerEnd(r) == /\ Finish(r)
                 /\ inflight' = inflight \ {r}
                 /\ MarkRequest("request_end", r)
                 /\ UNCHANGED <<gateVars, systemVars>>

\* _notify reaches notify_interceptor_state_change.
HandlerNotify(r) == /\ NotifyArmed(r) \/ NotifyEnding(r)
                    /\ Refresh
                    /\ UNCHANGED <<gateVars, storeVars>>

HandlerInner(r) == /\ \/ ArmGate(r)
                      \/ /\ Upstream(r) \/ Wake(r) \/ Resolve(r)
                         /\ UNCHANGED gateVars
                   /\ UNCHANGED <<storeVars, systemVars>>

Handler(r) == /\ \/ HandlerStart(r) \/ HandlerNotify(r)
                 \/ HandlerInner(r) \/ HandlerEnd(r)
              /\ UNCHANGED <<window, workerVars, monitorVars>>

-----------------------------------------------------------------------------
(* The monitor thread, _run_monitor_loop. *)

MonitorGoto(from, to) == mpc = from /\ mpc' = to

\* wait_for_change returns a change; a request_start is looked at by itself.
MonitorTake == /\ changes # <<>>
               /\ changes' = Tail(changes)
               /\ IF Head(changes).type = "request_start"
                    THEN /\ MonitorGoto("wait", "live")
                         /\ mreq' = {Head(changes).request}
                    ELSE /\ MonitorGoto("wait", "sweep")
                         /\ mreq' = {}
               /\ Refresh
               /\ UNCHANGED inflight

\* wait_for_change times out.
MonitorTimeout == /\ MonitorGoto("wait", "sweep")
                  /\ UNCHANGED <<storeVars, systemVars, mreq>>

\* _should_coordinate_live_request: first the transaction (not the merge), then
\* store and gate.
MonitorLive == /\ MonitorGoto("live",
                              IF window = "txn" THEN "sweep" ELSE "livePeek")
               /\ mreq' = IF window = "txn" THEN {} ELSE mreq
               /\ UNCHANGED <<storeVars, systemVars>>

MonitorLivePeek ==
    /\ IF inflight # {} /\ \E e \in pending : mreq \subseteq e.ids
         THEN MonitorGoto("livePeek", "liveDispatch")
         ELSE MonitorGoto("livePeek", "sweep")
    /\ mreq' = {}
    /\ UNCHANGED <<storeVars, systemVars>>

MonitorLiveDispatch == /\ MonitorGoto("liveDispatch", "sweep")
                       /\ Dispatch
                       /\ UNCHANGED <<storeVars, mreq>>

\* Mutant: the monitor acts on changes only.
MonitorNoSweep == /\ MonitorGoto("sweep", "wait")
                  /\ UNCHANGED <<storeVars, systemVars, mreq>>

\* _dispatch_pending_coordination, on every turn of the loop.
MonitorSweep == /\ MonitorGoto("sweep", IF signalled THEN "check" ELSE "wait")
                /\ UNCHANGED <<storeVars, systemVars, mreq>>

MonitorCheck == /\ ~Suppressed
                /\ MonitorGoto("check", "peek")
                /\ UNCHANGED <<storeVars, systemVars, mreq>>

MonitorPeek == /\ CoordinationDue
               /\ MonitorGoto("peek", "dispatch")
               /\ UNCHANGED <<storeVars, systemVars, mreq>>

\* Not to be coordinated: prune the signal when nothing is pending.
MonitorSkip == /\ \/ Suppressed /\ MonitorGoto("check", "wait")
                  \/ ~CoordinationDue /\ MonitorGoto("peek", "wait")
               /\ IF pending = {} THEN Refresh ELSE UNCHANGED systemVars
               /\ UNCHANGED <<storeVars, mreq>>

MonitorDispatch == /\ MonitorGoto("dispatch", "wait")
                   /\ Dispatch
                   /\ UNCHANGED <<storeVars, mreq>>

Monitor == /\ \/ MonitorTake \/ MonitorTimeout \/ MonitorLive
              \/ MonitorLivePeek \/ MonitorLiveDispatch \/ MonitorSweep
              \/ MonitorCheck \/ MonitorPeek \/ MonitorSkip \/ MonitorDispatch
           /\ UNCHANGED <<vars, window, workerVars>>

-----------------------------------------------------------------------------
(* A thread of the pool, _coordinate_sandbox_request. *)

WorkerGoto(w, from, to) == /\ wpc[w] = from
                           /\ wpc' = [wpc EXCEPT ![w] = to]

StartTask(w) == /\ queued > 0
                /\ WorkerGoto(w, "idle", "check")
                /\ queued' = queued - 1
                /\ UNCHANGED <<gateVars, signalled, active, wreq>>

CheckSuppressed(w) ==
    /\ WorkerGoto(w, "check", IF Suppressed THEN "leave" ELSE "take")
    /\ UNCHANGED <<gateVars, systemVars, wreq>>

\* _next_pending_live_request: the pass is for the oldest generation.
TakeOldest(w) ==
    /\ CoordinationDue
    /\ WorkerGoto(w, "take", "flow")
    /\ \E e \in pending : Oldest(e) /\ wreq' = [wreq EXCEPT ![w] = {e}]
    /\ UNCHANGED <<gateVars, systemVars>>

NothingDue(w) == /\ ~CoordinationDue
                 /\ WorkerGoto(w, "take", "leave")
                 /\ UNCHANGED <<gateVars, systemVars, wreq>>

\* _execute_checkpoint_flow up to the submission of a job.
FlowSubmits(w) == /\ ~Suppressed
                  /\ WorkerGoto(w, "flow", "job")
                  /\ UNCHANGED <<gateVars, systemVars, wreq>>

\* It is suppressed, the scheduler declines, or the query raises.
FlowSkips(w) == /\ WorkerGoto(w, "flow", "release")
                /\ UNCHANGED <<gateVars, systemVars, wreq>>

\* The submitted checkpoint succeeds, fails or raises; all end the flow.
JobEnds(w) == /\ WorkerGoto(w, "job", "release")
              /\ UNCHANGED <<gateVars, systemVars, wreq>>

\* Mutant: the end of a pass releases everything that is pending.
ReleaseEverything(w) == /\ WorkerGoto(w, "release", "refresh")
                        /\ ReleaseAll
                        /\ wreq' = [wreq EXCEPT ![w] = {}]
                        /\ UNCHANGED systemVars

\* _release_response_gate with the captured request.
ReleaseCaptured(w) == /\ WorkerGoto(w, "release", "refresh")
                      /\ \E e \in wreq[w] : ReleasePending(e.primary, e.gen)
                      /\ wreq' = [wreq EXCEPT ![w] = {}]
                      /\ UNCHANGED systemVars

RefreshSignal(w) == /\ \/ WorkerGoto(w, "refresh", "check")
                       \/ WorkerGoto(w, "tailRefresh", "tailCheck")
                    /\ Refresh
                    /\ UNCHANGED <<gateVars, wreq>>

\* The outer finally: give the sandbox up, then look once more.
LeaveCoordination(w) == /\ WorkerGoto(w, "leave", "tailRefresh")
                        /\ active' = FALSE
                        /\ UNCHANGED <<gateVars, signalled, queued, wreq>>

TailLooks(w) ==
    /\ \/ WorkerGoto(w, "tailCheck", IF Suppressed THEN "idle" ELSE "tailPeek")
       \/ WorkerGoto(w, "tailPeek",
                     IF CoordinationDue THEN "tailDispatch" ELSE "idle")
    /\ UNCHANGED <<gateVars, systemVars, wreq>>

TailDispatch(w) == /\ WorkerGoto(w, "tailDispatch", "idle")
                   /\ Dispatch
                   /\ UNCHANGED <<gateVars, wreq>>

Worker(w) == /\ \/ StartTask(w) \/ CheckSuppressed(w) \/ TakeOldest(w)
                \/ NothingDue(w) \/ FlowSubmits(w) \/ FlowSkips(w) \/ JobEnds(w)
                \/ ReleaseCaptured(w) \/ RefreshSignal(w)
                \/ LeaveCoordination(w) \/ TailLooks(w) \/ TailDispatch(w)
             /\ UNCHANGED <<handlerVars, storeVars, window, monitorVars>>

-----------------------------------------------------------------------------
\* A transaction or a merge opens or closes its window.
Window == /\ \/ ~Suppressed /\ window' \in {"txn", "merge"}
             \/ Suppressed /\ window' = "none"
          /\ UNCHANGED <<vars, storeVars, systemVars, workerVars, monitorVars>>

CNext == \/ \E r \in Requests : Handler(r)
         \/ Monitor
         \/ \E w \in Workers : Worker(w)
         \/ Window

CSpec == CInit /\ [][CNext]_cvars

\* Every thread keeps running; nothing is assumed of transactions and merges,
\* nor of the upstream, nor of which change the monitor sees first.
Fairness == /\ WF_cvars(Monitor)
            /\ \A w \in Workers : WF_cvars(Worker(w))
            /\ \A r \in Requests : WF_cvars(pc[r] # "upstream" /\ Handler(r))

FairCSpec == CSpec /\ Fairness

-----------------------------------------------------------------------------
\* The types of the signal set, the claims and the threads' local state; the
\* monitor's queue holds only changes that mark_request_start and _end put there.
CTypeOK == /\ TypeOK
           /\ inflight \subseteq Requests
           /\ changes \in Seq(Change)
           /\ signalled \in BOOLEAN /\ active \in BOOLEAN
           /\ queued \in Nat
           /\ window \in {"none", "txn", "merge"}
           /\ wpc \in [Workers -> WorkerPc]
           /\ wreq \in [Workers -> SUBSET Entry]
           /\ mpc \in MonitorPc
           /\ mreq \subseteq Requests

\* The threads that hold the sandbox in _active_coordination.
Holders == {w \in Workers : wpc[w] \in {"check", "take", "flow", "job", "release",
                                        "refresh", "leave"}}

\* The monitor, a leaving task and a starting one race on _active_coordination:
\* there is one task for the sandbox while it is marked active, queued or
\* running, and none otherwise.
OneTaskPerSandbox == queued + Cardinality(Holders) = (IF active THEN 1 ELSE 0)

\* The set behind has_pending_interceptor_signal: a pending response is known to
\* the monitor's sweep, or its handler is about to announce it; and a signal
\* without a pending response is about to be pruned.  Without the first the
\* response is stranded, without the second the sandbox never looks quiescent.
SignalTracksGate ==
    /\ pending # {} => signalled \/ \E r \in Requests : pc[r] = "armed"
    /\ signalled => pending # {} \/ \E w \in Workers : wpc[w] = "refresh"

\* A buffered response leaves the gate only at the end of the coordination pass
\* of its own generation, and the oldest first, although requests arm and join
\* groups while a pass is running: no other pass lets it go.
ReleasedInOrder ==
    [][\A e \in pending : e.gen \notin Gens(pending') =>
          /\ \E w \in Workers : wpc[w] = "release" /\ e.gen \in Gens(wreq[w])
          /\ \A f \in pending : e.gen <= f.gen]_cvars

\* "Auto-checkpoints are suppressed inside a transaction ... and inside a merge
\* window": no pass of the coordination loop has a checkpoint in flight while a
\* transaction or a merge holds the sandbox.  _execute_checkpoint_flow tests for
\* both once, before it queries the scheduler and submits the job.
NoCheckpointInWindow == Suppressed => \A w \in Workers : wpc[w] # "job"

\* Once no transaction or merge is open, every handler at the gate gets past it:
\* a request that arms while a task is leaving, or whose start event the monitor
\* saw before the gate was armed, is still coordinated.
NoResponseStranded ==
    <>[]~Suppressed => \A r \in Requests : pc[r] = "waiting" ~> pc[r] = "awake"
=============================================================================
