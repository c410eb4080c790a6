---------------------------- MODULE PassesProofs ----------------------------
(***************************************************************************)
(* The real callers of the response gate, for any number of requests,      *)
(* groups and threads: the coordination passes of CrabSystem and the       *)
(* snapshot transactions.  Both inherit the gate's own invariant from      *)
(* InterceptorProofs, since a step of theirs is, for the gate and its      *)
(* handlers, one of the most general client.                               *)
(***************************************************************************)
EXTENDS InterceptorProofs, Coordination, Transactions, FiniteSetTheorems

-----------------------------------------------------------------------------
(* Coordination. *)

\* The one task of the sandbox: none, or one in the pool's queue, or one thread.
OneTask == \/ ~active /\ queued = 0 /\ Holders = {}
           \/ active /\ queued = 1 /\ Holders = {}
           \/ active /\ queued = 0 /\ \E w \in Workers : Holders = {w}

\* The types the other parts need.
ThreadTypes == /\ wpc \in [Workers -> WorkerPc] /\ wreq \in [Workers -> SUBSET Entry]
               /\ queued \in Nat /\ active \in BOOLEAN /\ signalled \in BOOLEAN

\* The entry a pass has captured is of a generation that was armed, and none
\* older is pending.
CapturesOldest ==
    \A w \in Workers : \A x \in wreq[w] :
        /\ x.gen \in 1..generation /\ x.primary \in Requests
        /\ \A f \in pending : x.gen <= f.gen

CInv == IInv /\ ThreadTypes /\ OneTask /\ SignalTracksGate /\ CapturesOldest

\* What a step of the handlers or of the gate's client does to the gate, as far
\* as the callers see it: generations are armed in order, none comes back.
Forward == /\ IInv' /\ generation <= generation'
           /\ \A e \in pending' : \/ e.gen \in Gens(pending)
                                  \/ e.gen = generation + 1

\* A step that leaves the gate and the handlers alone keeps their invariant.
LEMMA VarsUnchanged ==
  ASSUME IInv, UNCHANGED vars
  PROVE  Forward
<1>1. UNCHANGED <<enabled, generation, pending, pendingGroups, satisfiedGroups, staging, staged,
                  dropped, pc, gen, disposition>>
  BY DEF vars, gateVars, handlerVars
<1>2. IInv'
  BY <1>1 DEF IInv, GateInv, GateTypeOK, GateConsistent, OneGatePerGroup, GroupsTracked, KnownGens,
              HandlerTypeOK, PassedStaysReleased, MembersAreListed, Gens
<1> QED BY <1>1, <1>2 DEF Forward, Gens, IInv, GateInv, GateTypeOK

\* Arming moves forward, and leaves something pending that was.
LEMMA ArmForward ==
  ASSUME IInv, NEW r \in Requests, ArmGate(r)
  PROVE  Forward /\ (pending # {} => pending' # {}) /\ Gens(pending) \subseteq Gens(pending')
<1>1. IInv'
  BY ArmGateInv
<1>2. CASE UNCHANGED <<gateVars, gen>>
  BY <1>1, <1>2 DEF gateVars, Forward, Gens, IInv, GateInv, GateTypeOK
<1>3. ASSUME NEW g \in 0..generation + 1, Arm(r, g)
      PROVE  Forward /\ (pending # {} => pending' # {}) /\ Gens(pending) \subseteq Gens(pending')
  <2>1. /\ generation <= generation'
        /\ \A e \in pending' : \/ \E f \in pending : f.gen = e.gen /\ f.ids \subseteq e.ids
                               \/ e.gen = generation + 1
    BY <1>3, ArmInv DEF IInv
  <2>2. Forward
    BY <1>1, <2>1 DEF Forward, Gens
  <2>3. \A e \in pending : \E f \in pending' : f.gen = e.gen
    <3>1. CASE UNCHANGED pending
      BY <3>1
    <3>2. CASE ArmJoin(r, g)
      <4>1. PICK x \in Joinable(r) : pending' = (pending \ {x}) \cup {[x EXCEPT !.ids = @ \cup {r}]}
        BY <3>2 DEF ArmJoin
      <4>2. x \in Entry
        BY DEF Joinable, IInv, GateInv, GateTypeOK
      <4>3. [x EXCEPT !.ids = @ \cup {r}].gen = x.gen
        BY <4>2 DEF Entry
      <4> QED BY <4>1, <4>3
    <3>3. CASE ArmNew(r, g)
      BY <3>3 DEF ArmNew
    <3> QED BY <1>3, <3>1, <3>2, <3>3 DEF Arm
  <2> QED BY <2>2, <2>3 DEF Gens
<1> QED BY <1>2, <1>3 DEF ArmGate

\* So does every other step of a handler, which does not touch the gate.
LEMMA QuietForward ==
  ASSUME IInv, NEW r \in Requests, QuietStep(r), UNCHANGED gateVars
  PROVE  Forward
<1>1. IInv'
  BY QuietInv
<1> QED BY <1>1 DEF Forward, gateVars, Gens, IInv, GateInv, GateTypeOK

\* A release by request and generation moves forward.
LEMMA ReleaseForward ==
  ASSUME IInv, NEW r \in Requests, NEW g \in 1..generation, ReleasePending(r, g), UNCHANGED handlerVars
  PROVE  Forward /\ pending' \subseteq pending /\ \A e \in pending \ pending' : e.gen = g
<1>1. GateCall
  BY DEF GateCall
<1>2. IInv' /\ generation' = generation /\ pending' \subseteq pending
  BY <1>1, GateCallIInv, GateCallInv DEF IInv
<1>3. \A e \in pending \ pending' : e.gen = g
  BY DEF ReleasePending, Unhold
<1> QED BY <1>2, <1>3 DEF Forward, Gens, IInv, GateInv, GateTypeOK

\* What a pass captured stays the oldest while the gate moves forward.
LEMMA CapturesKept ==
  ASSUME IInv, CapturesOldest, Forward, UNCHANGED wreq
  PROVE  CapturesOldest'
<1> SUFFICES ASSUME NEW w \in Workers, NEW x \in wreq[w]
             PROVE  /\ x.gen \in 1..generation' /\ x.primary \in Requests
                    /\ \A f \in pending' : x.gen <= f.gen
  BY DEF CapturesOldest
<1>1. /\ x.gen \in 1..generation /\ x.primary \in Requests /\ \A f \in pending : x.gen <= f.gen
  BY DEF CapturesOldest
<1>2. generation \in Nat /\ generation' \in Nat /\ generation <= generation'
  BY DEF Forward, IInv, GateInv, GateTypeOK
<1>3. \A f \in pending' : x.gen <= f.gen
  BY <1>1, <1>2 DEF Forward, Gens
<1> QED BY <1>1, <1>2, <1>3

\* start() leaves no task, no signal and an empty gate.
LEMMA CInitInv == CInit => CInv
<1> SUFFICES ASSUME CInit PROVE CInv
  OBVIOUS
<1>1. GateInv
  BY EmptyGate DEF CInit
<1>2. IInv
  BY <1>1 DEF CInit, GateEmpty, HandlerInit, IInv, HandlerTypeOK, HandlerPc, KnownGens,
              PassedStaysReleased, MembersAreListed, None
<1>3. ThreadTypes
  BY DEF CInit, ThreadTypes, WorkerPc
<1>4. OneTask /\ SignalTracksGate /\ CapturesOldest
  BY DEF CInit, GateEmpty, OneTask, Holders, SignalTracksGate, CapturesOldest
<1> QED BY <1>2, <1>3, <1>4 DEF CInv

\* A step that touches no claim and no pool thread keeps the one task.
LEMMA TasksKept ==
  ASSUME ThreadTypes, OneTask, signalled' \in BOOLEAN, UNCHANGED <<active, queued, wpc, wreq>>
  PROVE  ThreadTypes' /\ OneTask'
  BY DEF ThreadTypes, OneTask, Holders

\* _refresh_interceptor_pending_state makes the signal exact.
LEMMA RefreshIsExact ==
  ASSUME Refresh, UNCHANGED pending
  PROVE  SignalTracksGate' /\ signalled' \in BOOLEAN
  BY DEF Refresh, SignalTracksGate

\* The handlers: a request that arms announces it, and only that step ends the
\* state in which it is about to.
LEMMA HandlerCInv ==
  ASSUME CInv, NEW r \in Requests, Handler(r)
  PROVE  CInv'
<1>1. UNCHANGED <<wpc, wreq>>
  BY DEF Handler, workerVars
<1>2. CASE HandlerStart(r) \/ HandlerEnd(r)
  <2>1. QuietStep(r) /\ UNCHANGED <<gateVars, systemVars>>
    BY <1>2 DEF HandlerStart, HandlerEnd, QuietStep
  <2>2. Forward
    BY <2>1, QuietForward DEF CInv
  <2>3. \A q \in Requests : pc[q] = "armed" => pc'[q] = "armed"
    BY <1>2 DEF HandlerStart, HandlerEnd, Receive, Finish, Goto, CInv, IInv, HandlerTypeOK
  <2>4. SignalTracksGate'
    BY <1>1, <2>1, <2>3 DEF CInv, SignalTracksGate, gateVars, systemVars
  <2> QED BY <1>1, <2>1, <2>2, <2>4, TasksKept, CapturesKept
          DEF CInv, Forward, systemVars, ThreadTypes
<1>3. CASE HandlerNotify(r)
  <2>1. QuietStep(r) /\ UNCHANGED gateVars /\ Refresh
    BY <1>3 DEF HandlerNotify, QuietStep
  <2>2. Forward
    BY <2>1, QuietForward DEF CInv
  <2>3. SignalTracksGate' /\ signalled' \in BOOLEAN
    BY <2>1, RefreshIsExact DEF gateVars
  <2> QED BY <1>1, <2>1, <2>2, <2>3, TasksKept, CapturesKept DEF CInv, Forward, Refresh
<1>4. CASE ArmGate(r) /\ UNCHANGED systemVars
  <2>1. Forward /\ (pending # {} => pending' # {})
    BY <1>4, ArmForward DEF CInv
  <2>2. pc'[r] = "armed" /\ \A q \in Requests : pc[q] = "armed" => pc'[q] = "armed"
    BY <1>4 DEF ArmGate, Goto, CInv, IInv, HandlerTypeOK
  <2>3. SignalTracksGate'
    BY <1>1, <1>4, <2>1, <2>2 DEF CInv, SignalTracksGate, systemVars
  <2> QED BY <1>1, <1>4, <2>1, <2>3, TasksKept, CapturesKept
          DEF CInv, Forward, systemVars, ThreadTypes
<1>5. CASE (Upstream(r) \/ Wake(r) \/ Resolve(r)) /\ UNCHANGED <<gateVars, systemVars>>
  <2>1. QuietStep(r) /\ UNCHANGED <<gateVars, systemVars>>
    BY <1>5 DEF QuietStep
  <2>2. Forward
    BY <2>1, QuietForward DEF CInv
  <2>3. \A q \in Requests : pc[q] = "armed" => pc'[q] = "armed"
    BY <1>5 DEF Upstream, Wake, Resolve, Goto, CInv, IInv, HandlerTypeOK
  <2>4. SignalTracksGate'
    BY <1>1, <2>1, <2>3 DEF CInv, SignalTracksGate, gateVars, systemVars
  <2> QED BY <1>1, <2>1, <2>2, <2>4, TasksKept, CapturesKept
          DEF CInv, Forward, systemVars, ThreadTypes
<1> QED BY <1>2, <1>3, <1>4, <1>5 DEF Handler, HandlerInner

\* _dispatch_coordination queues a task only where there is none.
LEMMA DispatchOne ==
  ASSUME ThreadTypes, OneTask, SignalTracksGate, Dispatch, UNCHANGED <<pending, pc, wreq>>,
         NEW w, wpc' = wpc \/ (wpc[w] = "tailDispatch" /\ wpc' = [wpc EXCEPT ![w] = "idle"])
  PROVE  ThreadTypes' /\ OneTask' /\ SignalTracksGate'
<1>1. wpc' \in [Workers -> WorkerPc]
  BY DEF ThreadTypes, WorkerPc
<1>2. ThreadTypes'
  BY <1>1 DEF ThreadTypes, Dispatch
<1>3. Holders' = Holders
  BY DEF Holders, ThreadTypes
<1>4. OneTask'
  BY <1>3 DEF OneTask, Dispatch
<1>5. \A v \in Workers : wpc[v] = "refresh" <=> wpc'[v] = "refresh"
  BY DEF ThreadTypes
<1>6. SignalTracksGate'
  BY <1>5 DEF SignalTracksGate, Dispatch
<1> QED BY <1>2, <1>4, <1>6

\* The monitor looks, refreshes the signal and dispatches.
LEMMA MonitorCInv ==
  ASSUME CInv, Monitor
  PROVE  CInv'
<1>1. UNCHANGED vars /\ UNCHANGED <<wpc, wreq>>
  BY DEF Monitor, workerVars
<1>2. Forward /\ UNCHANGED <<pending, pc>>
  BY <1>1, VarsUnchanged DEF CInv, vars, gateVars, handlerVars
<1>3. IInv' /\ CapturesOldest'
  BY <1>1, <1>2, CapturesKept DEF CInv, Forward
<1>4. CASE Refresh
  BY <1>1, <1>2, <1>3, <1>4, RefreshIsExact, TasksKept DEF CInv, Refresh
<1>5. CASE Dispatch
  BY <1>1, <1>2, <1>3, <1>5, DispatchOne DEF CInv
<1>6. CASE UNCHANGED systemVars
  <2>1. SignalTracksGate'
    BY <1>1, <1>2, <1>6 DEF CInv, SignalTracksGate, systemVars
  <2> QED BY <1>1, <1>3, <1>6, <2>1, TasksKept DEF CInv, systemVars, ThreadTypes
<1>7. Refresh \/ Dispatch \/ UNCHANGED systemVars
  BY DEF Monitor, MonitorTake, MonitorTimeout, MonitorLive, MonitorLivePeek, MonitorLiveDispatch,
         MonitorSweep, MonitorCheck, MonitorPeek, MonitorSkip, MonitorDispatch
<1> QED BY <1>4, <1>5, <1>6, <1>7

\* The states of a pool thread that holds the sandbox.
HoldPc == {"check", "take", "flow", "job", "release", "refresh", "leave"}

\* A pool thread that moves on within its task, or outside one, changes none of
\* the claims; unless it has just released, the signal stays as good as it was.
LEMMA WorkerMoves ==
  ASSUME ThreadTypes, OneTask, NEW w \in Workers, NEW a \in WorkerPc, NEW b \in WorkerPc,
         WorkerGoto(w, a, b), a \in HoldPc <=> b \in HoldPc, UNCHANGED <<active, queued>>,
         signalled' \in BOOLEAN, wreq' \in [Workers -> SUBSET Entry]
  PROVE  /\ ThreadTypes' /\ OneTask'
         /\ a # "refresh" /\ UNCHANGED <<signalled, pending, pc>> /\ SignalTracksGate => SignalTracksGate'
<1>1. wpc' = [wpc EXCEPT ![w] = b] /\ wpc[w] = a
  BY DEF WorkerGoto
<1>2. ThreadTypes'
  BY <1>1 DEF ThreadTypes
<1>3. Holders' = Holders
  BY <1>1 DEF Holders, HoldPc, ThreadTypes
<1>4. OneTask'
  BY <1>3 DEF OneTask
<1>5. a # "refresh" => \A v \in Workers : wpc[v] = "refresh" => wpc'[v] = "refresh"
  BY <1>1 DEF ThreadTypes
<1> QED BY <1>2, <1>4, <1>5 DEF SignalTracksGate

\* The steps of a pass that change neither the gate nor a claim.
LEMMA PassCInv ==
  ASSUME CInv, NEW w \in Workers, UNCHANGED handlerVars,
         CheckSuppressed(w) \/ NothingDue(w) \/ FlowSubmits(w) \/ FlowSkips(w) \/ JobEnds(w) \/ TailLooks(w)
  PROVE  CInv'
<1>1. UNCHANGED vars /\ UNCHANGED <<systemVars, wreq>>
  BY DEF CheckSuppressed, NothingDue, FlowSubmits, FlowSkips, JobEnds, TailLooks, vars
<1>2. UNCHANGED <<pending, pc, signalled, active, queued>>
  BY <1>1 DEF vars, gateVars, handlerVars, systemVars
<1>3. \E a, b \in WorkerPc : WorkerGoto(w, a, b) /\ a # "refresh" /\ (a \in HoldPc <=> b \in HoldPc)
  BY DEF CheckSuppressed, NothingDue, FlowSubmits, FlowSkips, JobEnds, TailLooks, WorkerPc, HoldPc
<1>4. ThreadTypes' /\ OneTask' /\ SignalTracksGate'
  BY <1>1, <1>2, <1>3, WorkerMoves DEF CInv, ThreadTypes
<1> QED BY <1>1, <1>4, VarsUnchanged, CapturesKept DEF CInv, Forward

\* The pass captures the oldest pending entry.
LEMMA TakeCInv ==
  ASSUME CInv, NEW w \in Workers, UNCHANGED handlerVars, TakeOldest(w)
  PROVE  CInv'
<1>1. PICK e \in pending : Oldest(e) /\ wreq' = [wreq EXCEPT ![w] = {e}]
  BY DEF TakeOldest
<1>2. UNCHANGED vars /\ UNCHANGED <<pending, pc, generation, signalled, active, queued>>
  BY DEF TakeOldest, vars, gateVars, handlerVars, systemVars
<1>3. e \in Entry /\ e.gen \in 1..generation /\ e.primary \in Requests
  BY DEF CInv, IInv, GateInv, GateTypeOK, GateConsistent, Entry
<1>4. wreq' \in [Workers -> SUBSET Entry]
  BY <1>1, <1>3 DEF CInv, ThreadTypes
<1>5. WorkerGoto(w, "take", "flow") /\ "take" \in WorkerPc /\ "flow" \in WorkerPc
  BY DEF TakeOldest, WorkerPc
<1>6. ThreadTypes' /\ OneTask' /\ SignalTracksGate'
  BY <1>2, <1>4, <1>5, WorkerMoves DEF CInv, ThreadTypes, HoldPc
<1>7. CapturesOldest'
  BY <1>1, <1>2, <1>3 DEF CInv, ThreadTypes, CapturesOldest, Oldest
<1>8. IInv'
  BY <1>2, VarsUnchanged DEF CInv, Forward
<1> QED BY <1>6, <1>7, <1>8 DEF CInv

\* The end of a pass releases what it captured, and a refresh follows.
LEMMA ReleaseCInv ==
  ASSUME CInv, NEW w \in Workers, UNCHANGED handlerVars, ReleaseCaptured(w)
  PROVE  /\ CInv'
         /\ \A e \in pending \ pending' : /\ e.gen \in Gens(wreq[w]) /\ wpc[w] = "release"
                                          /\ \A f \in pending : e.gen <= f.gen
<1>1. PICK x \in wreq[w] : ReleasePending(x.primary, x.gen)
  BY DEF ReleaseCaptured
<1>2. /\ WorkerGoto(w, "release", "refresh") /\ wreq' = [wreq EXCEPT ![w] = {}]
      /\ UNCHANGED <<signalled, active, queued>>
  BY DEF ReleaseCaptured, systemVars
<1>3. x.primary \in Requests /\ x.gen \in 1..generation /\ \A f \in pending : x.gen <= f.gen
  BY DEF CInv, CapturesOldest
<1>4. Forward /\ pending' \subseteq pending /\ \A e \in pending \ pending' : e.gen = x.gen
  BY <1>1, <1>3, ReleaseForward DEF CInv
<1>5. wpc[w] = "release" /\ wpc'[w] = "refresh" /\ wreq' \in [Workers -> SUBSET Entry]
  BY <1>2 DEF CInv, ThreadTypes, WorkerGoto
<1>6. ThreadTypes' /\ OneTask'
  BY <1>2, <1>5, WorkerMoves DEF CInv, ThreadTypes, HoldPc, WorkerPc
<1>7. SignalTracksGate'
  BY <1>2, <1>4, <1>5 DEF CInv, SignalTracksGate, handlerVars
<1>8. CapturesOldest'
  <2>1. \A v \in Workers : wreq'[v] \subseteq wreq[v]
    BY <1>2 DEF CInv, ThreadTypes
  <2>2. generation' \in Nat /\ generation \in Nat /\ generation <= generation'
    BY <1>4 DEF CInv, Forward, IInv, GateInv, GateTypeOK
  <2> QED BY <1>4, <2>1, <2>2 DEF CInv, CapturesOldest
<1>9. CInv'
  BY <1>4, <1>6, <1>7, <1>8 DEF CInv, Forward
<1> QED BY <1>3, <1>4, <1>5, <1>9 DEF Gens

\* A task starts, ends, refreshes the signal or dispatches its successor.
LEMMA TaskCInv ==
  ASSUME CInv, NEW w \in Workers, UNCHANGED handlerVars,
         StartTask(w) \/ RefreshSignal(w) \/ LeaveCoordination(w) \/ TailDispatch(w)
  PROVE  CInv'
<1>1. UNCHANGED vars /\ UNCHANGED wreq
  BY DEF StartTask, RefreshSignal, LeaveCoordination, TailDispatch, vars
<1>2. UNCHANGED <<pending, pc, generation>>
  BY <1>1 DEF vars, gateVars, handlerVars
<1>3. IInv' /\ CapturesOldest'
  BY <1>1, VarsUnchanged, CapturesKept DEF CInv, Forward
<1>4. CASE StartTask(w)
  <2>1. /\ queued > 0 /\ wpc[w] = "idle" /\ wpc' = [wpc EXCEPT ![w] = "check"]
        /\ queued' = queued - 1 /\ UNCHANGED <<signalled, active>>
    BY <1>4 DEF StartTask, WorkerGoto
  <2>2. active /\ queued = 1 /\ Holders = {}
    BY <2>1 DEF CInv, OneTask
  <2>3. Holders' = {w}
    BY <2>1, <2>2 DEF Holders, CInv, ThreadTypes
  <2>4. ThreadTypes' /\ OneTask'
    BY <1>1, <2>1, <2>2, <2>3 DEF CInv, ThreadTypes, OneTask, WorkerPc
  <2>5. SignalTracksGate'
    BY <1>2, <2>1 DEF CInv, ThreadTypes, SignalTracksGate
  <2> QED BY <1>3, <2>4, <2>5 DEF CInv
<1>5. CASE RefreshSignal(w)
  <2>1. \E a, b \in WorkerPc : WorkerGoto(w, a, b) /\ (a \in HoldPc <=> b \in HoldPc)
    BY <1>5 DEF RefreshSignal, WorkerPc, HoldPc
  <2>2. SignalTracksGate' /\ signalled' \in BOOLEAN /\ UNCHANGED <<active, queued>>
    BY <1>2, <1>5, RefreshIsExact DEF RefreshSignal, Refresh
  <2>3. ThreadTypes' /\ OneTask'
    BY <1>1, <2>1, <2>2, WorkerMoves DEF CInv, ThreadTypes
  <2> QED BY <1>3, <2>2, <2>3 DEF CInv
<1>6. CASE LeaveCoordination(w)
  <2>1. /\ wpc[w] = "leave" /\ wpc' = [wpc EXCEPT ![w] = "tailRefresh"]
        /\ active' = FALSE /\ UNCHANGED <<signalled, queued>>
    BY <1>6 DEF LeaveCoordination, WorkerGoto
  <2>2. w \in Holders
    BY <2>1 DEF Holders
  <2>3. queued = 0 /\ Holders = {w}
    BY <2>2 DEF CInv, OneTask
  <2>4. Holders' = {}
    BY <2>1, <2>3 DEF Holders, CInv, ThreadTypes
  <2>5. ThreadTypes' /\ OneTask'
    BY <1>1, <2>1, <2>3, <2>4 DEF CInv, ThreadTypes, OneTask, WorkerPc
  <2>6. SignalTracksGate'
    BY <1>2, <2>1 DEF CInv, ThreadTypes, SignalTracksGate
  <2> QED BY <1>3, <2>5, <2>6 DEF CInv
<1>7. CASE TailDispatch(w)
  <2>1. Dispatch /\ wpc[w] = "tailDispatch" /\ wpc' = [wpc EXCEPT ![w] = "idle"]
    BY <1>7 DEF TailDispatch, WorkerGoto
  <2> QED BY <1>1, <1>2, <1>3, <2>1, DispatchOne DEF CInv
<1> QED BY <1>4, <1>5, <1>6, <1>7

\* One step of coordination keeps the invariant, and an entry leaves the gate
\* only at the end of the pass that captured it.
LEMMA CStep ==
  ASSUME CInv, [CNext]_cvars
  PROVE  /\ CInv'
         /\ \A e \in pending : e.gen \notin Gens(pending') =>
               /\ \E w \in Workers : wpc[w] = "release" /\ e.gen \in Gens(wreq[w])
               /\ \A f \in pending : e.gen <= f.gen
<1> DEFINE InOrder == \A e \in pending : e.gen \notin Gens(pending') =>
                         /\ \E w \in Workers : wpc[w] = "release" /\ e.gen \in Gens(wreq[w])
                         /\ \A f \in pending : e.gen <= f.gen
<1>1. ASSUME UNCHANGED pending PROVE InOrder
  BY <1>1 DEF Gens
<1>2. ASSUME NEW r \in Requests, Handler(r) PROVE CInv' /\ InOrder
  <2>1. CInv'
    BY <1>2, HandlerCInv
  <2>2. ArmGate(r) \/ UNCHANGED pending
    BY <1>2 DEF Handler, HandlerStart, HandlerNotify, HandlerInner, HandlerEnd, gateVars
  <2>3. Gens(pending) \subseteq Gens(pending') \/ UNCHANGED pending
    BY <2>2, ArmForward DEF CInv
  <2> QED BY <1>1, <2>1, <2>3 DEF Gens
<1>3. CASE Monitor
  <2>1. UNCHANGED pending
    BY <1>3 DEF Monitor, vars, gateVars
  <2> QED BY <1>1, <1>3, <2>1, MonitorCInv
<1>4. ASSUME NEW w \in Workers, Worker(w) PROVE CInv' /\ InOrder
  <2>1. UNCHANGED handlerVars
    BY <1>4 DEF Worker
  <2>2. CASE ReleaseCaptured(w)
    <3>1. CInv' /\ \A e \in pending \ pending' :
             e.gen \in Gens(wreq[w]) /\ wpc[w] = "release" /\ \A f \in pending : e.gen <= f.gen
      BY <2>1, <2>2, ReleaseCInv
    <3> QED BY <3>1 DEF Gens
  <2>3. CASE TakeOldest(w)
    BY <1>1, <2>1, <2>3, TakeCInv DEF TakeOldest, gateVars
  <2>4. CASE CheckSuppressed(w) \/ NothingDue(w) \/ FlowSubmits(w) \/ FlowSkips(w) \/ JobEnds(w)
             \/ TailLooks(w)
    BY <1>1, <2>1, <2>4, PassCInv
       DEF CheckSuppressed, NothingDue, FlowSubmits, FlowSkips, JobEnds, TailLooks, gateVars
  <2>5. CASE StartTask(w) \/ RefreshSignal(w) \/ LeaveCoordination(w) \/ TailDispatch(w)
    BY <1>1, <2>1, <2>5, TaskCInv
       DEF StartTask, RefreshSignal, LeaveCoordination, TailDispatch, gateVars
  <2> QED BY <1>4, <2>2, <2>3, <2>4, <2>5 DEF Worker
<1>5. CASE Window \/ UNCHANGED cvars
  <2>1. UNCHANGED vars /\ UNCHANGED <<signalled, active, queued, wpc, wreq>>
    BY <1>5 DEF Window, cvars, systemVars, workerVars
  <2>2. UNCHANGED <<pending, pc>>
    BY <2>1 DEF vars, gateVars, handlerVars
  <2>3. SignalTracksGate'
    BY <2>1, <2>2 DEF CInv, SignalTracksGate
  <2> QED BY <1>1, <2>1, <2>2, <2>3, VarsUnchanged, CapturesKept, TasksKept DEF CInv, Forward, ThreadTypes
<1> QED BY <1>2, <1>3, <1>4, <1>5 DEF CNext

\* The inductive invariant of coordination.
THEOREM CoordinationInvariance == CSpec => []CInv
<1>1. CInv /\ [CNext]_cvars => CInv'
  BY CStep
<1> QED BY <1>1, CInitInv, PTL DEF CSpec

\* Between the monitor, a task that leaves and one that starts, there is exactly
\* one task for a sandbox in _active_coordination and none otherwise.
THEOREM TasksDoNotRace == CSpec => []OneTaskPerSandbox
<1>1. ASSUME CInv PROVE OneTaskPerSandbox
  <2>1. CASE Holders = {}
    BY <1>1, <2>1, FS_EmptySet DEF CInv, OneTask, OneTaskPerSandbox
  <2>2. CASE \E w \in Workers : Holders = {w}
    <3>1. Cardinality(Holders) = 1
      BY <2>2, FS_Singleton
    <3>2. active /\ queued = 0
      BY <1>1, <2>2 DEF CInv, OneTask
    <3> QED BY <3>1, <3>2 DEF OneTaskPerSandbox
  <2> QED BY <1>1, <2>1, <2>2 DEF CInv, OneTask
<1> QED BY <1>1, CoordinationInvariance, PTL

\* A pending response is known to the monitor's sweep or about to be announced,
\* and a signal without one is about to be pruned.
THEOREM SignalIsTrue == CSpec => []SignalTracksGate
<1>1. CInv => SignalTracksGate
  BY DEF CInv
<1> QED BY <1>1, CoordinationInvariance, PTL

\* Responses leave the gate oldest first, each at the end of its own pass.
THEOREM PassesReleaseInOrder == CSpec => ReleasedInOrder
<1>1. ASSUME CInv, [CNext]_cvars
      PROVE  [\A e \in pending : e.gen \notin Gens(pending') =>
                /\ \E w \in Workers : wpc[w] = "release" /\ e.gen \in Gens(wreq[w])
                /\ \A f \in pending : e.gen <= f.gen]_cvars
  BY <1>1, CStep
<1> QED BY <1>1, CoordinationInvariance, PTL DEF CSpec, ReleasedInOrder

\* The gate's promises hold for coordination, the most general client's.
THEOREM CoordinationKeepsGate == CSpec => []GateIsSound
<1>1. CInv => GateIsSound
  BY DEF CInv, IInv, GateInv, GateIsSound
<1> QED BY <1>1, CoordinationInvariance, PTL

-----------------------------------------------------------------------------
(* Transactions. *)

\* A base checkpoint works on an entry that was armed.
CapturedKnown == \A c \in Callers : \A x \in creq[c] : x.gen \in 1..generation

GInv == IInv /\ TTypeOK /\ CapturedKnown

\* A handler that has not been at the gate has neither generation nor answer.
EarlyHandlers ==
    \A r \in Requests :
        /\ pc[r] \in {"new", "started"} => gen[r] = None
        /\ pc[r] \in {"new", "started", "armed", "upstream", "waiting", "awake"} => disposition[r] = "none"

\* The entry in _active_txns follows the one caller through its call.
Follows(p, i, g) ==
    /\ p \in {"mergeCheck", "base", "basing", "stage", "register"} => g = Reserved /\ i \in TxnIds
    /\ p \in {"effects"} \cup ResolvePc => g = i /\ i \in TxnIds
    /\ p = "unreserve" => g # Absent
    /\ p \in KillPc => g = Absent
EntryFollowsCall == \A c \in Callers : Follows(cpc[c], cid[c], registered)

\* The window of a merge is inside its entry in _active_merges.
MergeIsMarked == merging <=> gpc # "idle"

\* Until a begin stages, nothing was armed on behalf of its transaction.
FreshIds ==
    /\ registered <= serial /\ owner <= serial
    /\ \A r \in Requests : scope[r] <= serial
    /\ \A c \in Callers : /\ cid[c] <= serial
                          /\ cpc[c] \in {"mergeCheck", "base", "basing", "stage"}
                                => owner # cid[c] /\ \A r \in Requests : scope[r] # cid[c]

\* The time from the staging of transaction t until its commit flushes or its
\* abort ends the staging.
Guarded(t) ==
    \/ \E c \in Callers : cpc[c] = "register" /\ cid[c] = t
    \/ registered = t /\ \A c \in Callers :
           cpc[c] \notin {"commitEnd", "commitClear", "abortEnd", "abortClear"}

\* During that time what was armed inside is held or was dropped.
GuardHolds ==
    \A t \in TxnIds : Guarded(t) =>
        /\ staging /\ owner = t
        /\ \A r \in Requests : scope[r] = t /\ gen[r] # None
              => gen[r] \in Held \cup dropped /\ disposition[r] # "deliver"

TInv == /\ GInv /\ EarlyHandlers /\ EntryFollowsCall /\ MergeIsMarked /\ FreshIds
        /\ TxnMergeExclusion /\ GuardHolds

\* What a caller's step leaves alone.
CallerStep(c) == (BeginTxn(c) \/ ResolveTxn(c)) /\ UNCHANGED <<handlerVars, mergeVars>>

\* To the gate a caller's step is one method of the registry or nothing.
LEMMA CallerAtGate ==
  ASSUME GInv, NEW c \in Callers, CallerStep(c)
  PROVE  GateCall \/ UNCHANGED gateVars
<1>1. ASSUME NEW e \in creq[c], ReleasePending(e.primary, e.gen) PROVE GateCall
  <2>1. e.primary \in Requests /\ e.gen \in 1..generation
    BY <1>1 DEF GInv, TTypeOK, CapturedKnown, Entry
  <2> QED BY <1>1, <2>1 DEF GateCall
<1>2. CASE BeginTxn(c)
  BY <1>1, <1>2 DEF BeginTxn, Reserve, CheckMerge, ReuseBase, TakeBase, BaseDone, Stage, Register,
                    ArmEffects, Unreserve, GateCall
<1>3. CASE ResolveTxn(c)
  BY <1>3 DEF ResolveTxn, Require, Kill, ReleaseHeld, FlushStaged, DropStaged, RestoreBase, Disarm,
              ClearTxn, GateCall
<1> QED BY <1>2, <1>3 DEF CallerStep

\* Any method of the registry moves the gate forward.
LEMMA CallForward ==
  ASSUME IInv, GateCall, UNCHANGED handlerVars
  PROVE  Forward
<1>1. IInv' /\ generation' = generation /\ pending' \subseteq pending
  BY GateCallIInv, GateCallInv DEF IInv
<1> QED BY <1>1 DEF Forward, Gens, IInv, GateInv, GateTypeOK

\* So does a caller of the transaction API.
LEMMA CallerForward ==
  ASSUME GInv, NEW c \in Callers, CallerStep(c)
  PROVE  Forward
<1>1. CASE GateCall
  BY <1>1, CallForward DEF GInv, CallerStep
<1>2. CASE UNCHANGED gateVars
  BY <1>2, VarsUnchanged DEF GInv, CallerStep, vars
<1> QED BY <1>1, <1>2, CallerAtGate

\* So does a handler.
LEMMA HandlerForward ==
  ASSUME IInv, NEW r \in Requests, HandlerStep(r)
  PROVE  Forward
<1>1. ArmGate(r) \/ (QuietStep(r) /\ UNCHANGED gateVars)
  BY DEF HandlerStep, QuietStep
<1> QED BY <1>1, ArmForward, QuietForward

\* So does a release on behalf of somebody else.
LEMMA OtherForward ==
  ASSUME IInv, OtherRelease
  PROVE  Forward
<1>1. ASSUME NEW e \in pending, ReleasePending(e.primary, e.gen) PROVE GateCall
  <2>1. e.primary \in Requests /\ e.gen \in 1..generation
    BY <1>1 DEF IInv, GateInv, GateTypeOK, GateConsistent, Entry
  <2> QED BY <1>1, <2>1 DEF GateCall
<1>2. GateCall
  BY <1>1 DEF OtherRelease, GateCall
<1> QED BY <1>2, CallForward DEF OtherRelease

\* The types of the transaction API's own state.
ApiTypes == /\ registered \in {Absent, Reserved} \cup TxnIds
            /\ serial \in 0..MaxTxns /\ killed \in BOOLEAN
            /\ cpc \in [Callers -> CallerPc] /\ cid \in [Callers -> 0..MaxTxns]
            /\ owner \in 0..MaxTxns

\* A caller's step keeps them.
LEMMA CallerTypes ==
  ASSUME ApiTypes, NEW c \in Callers, CallerStep(c)
  PROVE  ApiTypes'
<1> USE CallersAssumption DEF ApiTypes, CallGoto, txnVars, history, TxnIds, Absent, Reserved
<1>1. CASE Reserve(c)
  BY <1>1 DEF Reserve, CallerPc
<1>2. CASE CheckMerge(c) \/ ReuseBase(c) \/ TakeBase(c) \/ BaseDone(c) \/ ArmEffects(c)
  BY <1>2 DEF CheckMerge, ReuseBase, TakeBase, BaseDone, ArmEffects, CallerPc, BeginPc
<1>3. CASE Stage(c) \/ Register(c) \/ Unreserve(c)
  BY <1>3 DEF Stage, Register, Unreserve, CallerPc, BeginPc
<1>4. CASE Require(c)
  BY <1>4 DEF Require, CallerPc, ResolvePc
<1>5. CASE Kill(c)
  BY <1>5 DEF Kill, CallerPc, KillPc
<1>6. CASE ReleaseHeld(c) \/ FlushStaged(c) \/ DropStaged(c)
  BY <1>6 DEF ReleaseHeld, FlushStaged, DropStaged, CallerPc, ResolvePc, KillPc
<1>7. CASE RestoreBase(c) \/ Disarm(c) \/ ClearTxn(c)
  BY <1>7 DEF RestoreBase, Disarm, ClearTxn, CallerPc, ResolvePc
<1> QED BY <1>1, <1>2, <1>3, <1>4, <1>5, <1>6, <1>7 DEF CallerStep, BeginTxn, ResolveTxn

\* And what it has captured stays something that was armed.
LEMMA CallerCaptures ==
  ASSUME GInv, NEW c \in Callers, CallerStep(c)
  PROVE  creq' \in [Callers -> SUBSET Entry] /\ CapturedKnown' /\ discarded' \subseteq Nat
<1>1. generation \in Nat /\ generation' \in Nat /\ generation <= generation'
  BY CallerForward DEF Forward, GInv, IInv, GateInv, GateTypeOK
<1>2. creq' \in [Callers -> SUBSET Entry] /\ \A d \in Callers : creq'[d] \subseteq creq[d] \cup pending
  <2>1. CASE UNCHANGED creq
    BY <2>1 DEF GInv, TTypeOK
  <2>2. CASE TakeBase(c)
    BY <2>2 DEF TakeBase, GInv, TTypeOK, IInv, GateInv, GateTypeOK
  <2>3. CASE BaseDone(c)
    BY <2>3 DEF BaseDone, GInv, TTypeOK
  <2>4. UNCHANGED creq \/ TakeBase(c) \/ BaseDone(c)
    BY DEF CallerStep, BeginTxn, ResolveTxn, Reserve, CheckMerge, ReuseBase, Stage, Register,
           ArmEffects, Unreserve, Require, Kill, ReleaseHeld, FlushStaged, DropStaged, RestoreBase,
           Disarm, ClearTxn
  <2> QED BY <2>1, <2>2, <2>3, <2>4
<1>3. CapturedKnown'
  <2> SUFFICES ASSUME NEW d \in Callers, NEW x \in creq'[d]
               PROVE  x.gen \in 1..generation'
    BY DEF CapturedKnown
  <2>1. x \in creq[d] \/ x \in pending
    BY <1>2
  <2>2. x.gen \in 1..generation
    BY <2>1 DEF CapturedKnown, GInv, IInv, GateInv, GateConsistent
  <2> QED BY <1>1, <2>2
<1>4. discarded' \subseteq Nat
  <2>1. UNCHANGED discarded \/ discarded' = discarded \cup staged
    BY DEF CallerStep, BeginTxn, ResolveTxn, Reserve, CheckMerge, ReuseBase, TakeBase, BaseDone, Stage,
           Register, ArmEffects, Unreserve, Require, Kill, ReleaseHeld, FlushStaged, DropStaged,
           RestoreBase, Disarm, ClearTxn, history
  <2> QED BY <2>1 DEF GInv, TTypeOK, IInv, GateInv, GateTypeOK
<1> QED BY <1>2, <1>3, <1>4

\* A step that leaves the callers alone keeps what they captured.
LEMMA OthersCaptures ==
  ASSUME GInv, Forward, UNCHANGED creq
  PROVE  CapturedKnown'
<1>1. generation \in Nat /\ generation' \in Nat /\ generation <= generation'
  BY DEF Forward, GInv, IInv, GateInv, GateTypeOK
<1> QED BY <1>1 DEF CapturedKnown, GInv

\* One step of the transaction API, of a handler or of a merge.
LEMMA GStep ==
  ASSUME GInv, [TNext]_tvars
  PROVE  GInv' /\ Forward
<1> USE DEF callVars, txnVars, mergeVars, history
<1>1. ASSUME NEW r \in Requests, THandler(r) PROVE GInv' /\ Forward
  <2>1. Forward
    BY <1>1, HandlerForward DEF GInv, THandler
  <2>2. scope' \in [Requests -> 0..MaxTxns]
    BY <1>1 DEF GInv, TTypeOK, THandler
  <2>3. TypeOK'
    BY <2>1 DEF Forward, IInv, GateInv, TypeOK
  <2>4. TTypeOK'
    BY <1>1, <2>2, <2>3 DEF THandler, GInv, TTypeOK
  <2> QED BY <1>1, <2>1, <2>4, OthersCaptures DEF GInv, Forward, THandler
<1>2. ASSUME NEW c \in Callers, CallerStep(c) PROVE GInv' /\ Forward
  <2>1. Forward
    BY <1>2, CallerForward
  <2>2. TypeOK'
    BY <2>1 DEF Forward, IInv, GateInv, TypeOK
  <2>3. ApiTypes'
    BY <1>2, CallerTypes DEF GInv, TTypeOK, ApiTypes
  <2>4. creq' \in [Callers -> SUBSET Entry] /\ CapturedKnown' /\ discarded' \subseteq Nat
    BY <1>2, CallerCaptures
  <2>5. UNCHANGED <<scope, merging, gpc>>
    BY <1>2 DEF CallerStep, BeginTxn, ResolveTxn, Reserve, CheckMerge, ReuseBase, TakeBase, BaseDone,
                Stage, Register, ArmEffects, Unreserve, Require, Kill, ReleaseHeld, FlushStaged,
                DropStaged, RestoreBase, Disarm, ClearTxn
  <2>6. TTypeOK'
    BY <2>2, <2>3, <2>4, <2>5 DEF ApiTypes, GInv, TTypeOK
  <2> QED BY <2>1, <2>4, <2>6 DEF GInv, Forward
<1>3. CASE Merge /\ UNCHANGED <<vars, callVars, txnVars, history>>
  <2>1. Forward
    BY <1>3, VarsUnchanged DEF GInv
  <2>2. TypeOK'
    BY <2>1 DEF Forward, IInv, GateInv, TypeOK
  <2>3. merging' \in BOOLEAN /\ gpc' \in {"idle", "txnCheck", "window", "leave"}
    BY <1>3 DEF GInv, TTypeOK, Merge, EnterMerge, CheckTxn, CloseWindow, LeaveMerge, MergeGoto
  <2>4. TTypeOK'
    BY <1>3, <2>2, <2>3 DEF GInv, TTypeOK
  <2> QED BY <1>3, <2>1, <2>4, OthersCaptures DEF GInv, Forward
<1>4. CASE OtherRelease \/ UNCHANGED tvars
  <2>1. Forward
    BY <1>4, OtherForward, VarsUnchanged DEF GInv, tvars
  <2>2. TypeOK'
    BY <2>1 DEF Forward, IInv, GateInv, TypeOK
  <2>3. UNCHANGED <<callVars, txnVars, mergeVars, history>>
    BY <1>4 DEF OtherRelease, tvars
  <2>4. TTypeOK'
    BY <2>2, <2>3 DEF GInv, TTypeOK
  <2> QED BY <2>1, <2>3, <2>4, OthersCaptures DEF GInv, Forward
<1> QED BY <1>1, <1>2, <1>3, <1>4 DEF TNext, CallerStep

\* No transaction, no merge and an empty gate.
LEMMA TInitInv == TInit => TInv
<1> SUFFICES ASSUME TInit PROVE TInv
  OBVIOUS
<1>1. GateInv
  BY EmptyGate DEF TInit
<1>2. IInv
  BY <1>1 DEF TInit, GateEmpty, HandlerInit, IInv, HandlerTypeOK, HandlerPc, KnownGens,
              PassedStaysReleased, MembersAreListed, None
<1>3. TTypeOK
  <2>1. TypeOK
    BY <1>2 DEF TypeOK, IInv, GateInv
  <2>2. 0 \in 0..MaxTxns /\ "idle" \in CallerPc
    BY CallersAssumption DEF CallerPc
  <2> QED BY <2>1, <2>2 DEF TInit, TTypeOK
<1>4. CapturedKnown /\ EarlyHandlers /\ MergeIsMarked /\ TxnMergeExclusion
  BY DEF TInit, CapturedKnown, HandlerInit, EarlyHandlers, MergeIsMarked, TxnMergeExclusion
<1>5. EntryFollowsCall /\ FreshIds /\ GuardHolds
  BY DEF TInit, EntryFollowsCall, Follows, FreshIds, GuardHolds, Guarded, ResolvePc, KillPc, Absent, TxnIds
<1> QED BY <1>2, <1>3, <1>4, <1>5 DEF TInv, GInv

\* The gate's promises hold for any number of callers of the transaction API,
\* whatever their begins, commits, aborts and kills do to each other.
THEOREM TransactionsKeepGate == TSpec => []GateIsSound
<1>1. TInit => GInv
  BY TInitInv DEF TInv
<1>2. GInv /\ [TNext]_tvars => GInv'
  BY GStep
<1>3. GInv => GateIsSound
  BY DEF GInv, IInv, GateInv, GateIsSound
<1> QED BY <1>1, <1>2, <1>3, PTL DEF TSpec

\* The client of the transaction API makes one call at a time.  With two calls
\* in flight the next two theorems are false: both pass _require_txn.
OneCaller == \A c, d \in Callers : c = d

\* A handler gets its generation at the gate and its answer behind it.
LEMMA EarlyStep ==
  ASSUME TInv, [TNext]_tvars
  PROVE  EarlyHandlers'
<1>1. ASSUME NEW r \in Requests, HandlerStep(r) PROVE EarlyHandlers'
  <2>1. CASE ArmGate(r)
    BY <2>1 DEF TInv, GInv, IInv, HandlerTypeOK, EarlyHandlers, ArmGate, Goto
  <2>2. CASE Resolve(r)
    BY <2>2 DEF TInv, GInv, IInv, HandlerTypeOK, EarlyHandlers, Resolve, Goto
  <2>3. CASE Receive(r) \/ NotifyArmed(r) \/ Upstream(r) \/ Wake(r) \/ NotifyEnding(r) \/ Finish(r)
    BY <2>3 DEF TInv, GInv, IInv, HandlerTypeOK, EarlyHandlers, Receive, NotifyArmed, Upstream, Wake,
                NotifyEnding, Finish, Goto
  <2> QED BY <1>1, <2>1, <2>2, <2>3 DEF HandlerStep
<1>2. ASSUME UNCHANGED handlerVars PROVE EarlyHandlers'
  BY <1>2 DEF handlerVars, TInv, EarlyHandlers
<1> QED BY <1>1, <1>2 DEF TNext, THandler, OtherRelease, tvars, vars

\* The steps of a call: from where to where, with which id, and what they make
\* of the entry in _active_txns.
Moves(p, q, i, j, g, h) ==
    \/ p = "idle" /\ q = "mergeCheck" /\ j \in TxnIds /\ g = Absent /\ h = Reserved
    \/ p = "idle" /\ q \in {"commitRelease", "abortRelease"} /\ g \in TxnIds /\ j = g /\ h = g
    \/ p = "idle" /\ q \in {"idle", "killRelease"} /\ h = Absent
    \/ p = "mergeCheck" /\ q = "base" /\ merging = FALSE /\ j = i /\ h = g
    \/ p = "register" /\ q = "effects" /\ j = i /\ h = i
    \/ p \in {"unreserve", "commitClear", "abortClear"} /\ q = "idle" /\ h = Absent
    \/ /\ \/ p = "mergeCheck" /\ q = "unreserve"
          \/ p = "base" /\ q \in {"basing", "stage"}
          \/ p = "basing" /\ q \in {"stage", "unreserve"}
          \/ p = "stage" /\ q = "register"
          \/ p = "effects" /\ q \in {"idle", "unreserve"}
          \/ p = "commitRelease" /\ q = "commitFlush"
          \/ p = "commitFlush" /\ q = "commitEnd"
          \/ p = "commitEnd" /\ q = "commitClear"
          \/ p = "abortRelease" /\ q = "abortDiscard"
          \/ p = "abortDiscard" /\ q = "abortRestore"
          \/ p = "abortRestore" /\ q \in {"abortEnd", "idle"}
          \/ p = "abortEnd" /\ q = "abortClear"
          \/ p = "killRelease" /\ q = "killDiscard"
          \/ p = "killDiscard" /\ q = "killEnd"
          \/ p = "killEnd" /\ q = "idle"
       /\ j = i /\ h = g

\* A step of a call is one of these.
LEMMA CallMoves ==
  ASSUME TInv, NEW c \in Callers, CallerStep(c)
  PROVE  Moves(cpc[c], cpc'[c], cid[c], cid'[c], registered, registered')
<1>1. cpc \in [Callers -> CallerPc] /\ cid \in [Callers -> 0..MaxTxns] /\ serial \in 0..MaxTxns
  BY DEF TInv, GInv, TTypeOK
<1>2. MaxTxns \in Nat
  BY CallersAssumption
<1>3. ASSUME NEW p, NEW q, CallGoto(c, p, q) PROVE cpc[c] = p /\ cpc'[c] = q
  BY <1>1, <1>3 DEF CallGoto
<1>4. ASSUME UNCHANGED <<cid, txnVars>> PROVE cid'[c] = cid[c] /\ registered' = registered
  BY <1>4 DEF txnVars
<1>5. CASE Reserve(c)
  <2>1. cpc[c] = "idle" /\ cpc'[c] = "mergeCheck" /\ registered = Absent /\ registered' = Reserved
    BY <1>3, <1>5 DEF Reserve
  <2>2. cid'[c] = serial + 1 /\ serial < MaxTxns
    BY <1>1, <1>5 DEF Reserve
  <2>3. cid'[c] \in TxnIds
    BY <1>1, <1>2, <2>2 DEF TxnIds
  <2> QED BY <2>1, <2>3 DEF Moves
<1>6. CASE CheckMerge(c)
  <2>1. cpc[c] = "mergeCheck" /\ cpc'[c] = IF merging THEN "unreserve" ELSE "base"
    BY <1>3, <1>6 DEF CheckMerge
  <2>2. cid'[c] = cid[c] /\ registered' = registered
    BY <1>4, <1>6 DEF CheckMerge
  <2>3. merging \in BOOLEAN
    BY DEF TInv, GInv, TTypeOK
  <2>4. CASE merging = TRUE
    <3>1. cpc'[c] = "unreserve"
      BY <2>1, <2>4
    <3> QED BY <2>1, <2>2, <3>1 DEF Moves
  <2>5. CASE merging = FALSE
    <3>1. cpc'[c] = "base"
      BY <2>1, <2>5
    <3> QED BY <2>1, <2>2, <2>5, <3>1 DEF Moves
  <2> QED BY <2>3, <2>4, <2>5
<1>7. CASE Register(c)
  <2>1. cpc[c] = "register" /\ cpc'[c] = "effects" /\ cid'[c] = cid[c] /\ registered' = cid[c]
    BY <1>3, <1>7 DEF Register
  <2> QED BY <2>1 DEF Moves
<1>8. CASE Unreserve(c) \/ ClearTxn(c)
  <2>1. cpc[c] \in {"unreserve", "commitClear", "abortClear"} /\ cpc'[c] = "idle" /\ registered' = Absent
    BY <1>3, <1>8 DEF Unreserve, ClearTxn
  <2> QED BY <2>1 DEF Moves
<1>9. CASE Require(c)
  <2>1. cpc[c] = "idle" /\ cpc'[c] \in {"commitRelease", "abortRelease"}
    BY <1>3, <1>9 DEF Require
  <2>2. registered \in TxnIds /\ cid'[c] = registered /\ registered' = registered
    BY <1>1, <1>9 DEF Require, txnVars
  <2> QED BY <2>1, <2>2 DEF Moves
<1>10. CASE Kill(c)
  <2>1. cpc[c] = "idle" /\ cpc'[c] \in {"idle", "killRelease"} /\ registered' = Absent
    BY <1>3, <1>10 DEF Kill
  <2> QED BY <2>1 DEF Moves
<1>11. CASE ReuseBase(c) \/ TakeBase(c) \/ BaseDone(c) \/ Stage(c) \/ ArmEffects(c)
  <2>1. UNCHANGED <<cid, txnVars>>
    BY <1>11 DEF ReuseBase, TakeBase, BaseDone, Stage, ArmEffects
  <2>2. \/ cpc[c] = "base" /\ cpc'[c] \in {"basing", "stage"}
        \/ cpc[c] = "basing" /\ cpc'[c] \in {"stage", "unreserve"}
        \/ cpc[c] = "stage" /\ cpc'[c] = "register"
        \/ cpc[c] = "effects" /\ cpc'[c] \in {"idle", "unreserve"}
    BY <1>3, <1>11 DEF ReuseBase, TakeBase, BaseDone, Stage, ArmEffects
  <2> QED BY <1>4, <2>1, <2>2 DEF Moves
<1>12. CASE ReleaseHeld(c) \/ FlushStaged(c) \/ DropStaged(c) \/ RestoreBase(c) \/ Disarm(c)
  <2>1. UNCHANGED <<cid, txnVars>>
    BY <1>12 DEF ReleaseHeld, FlushStaged, DropStaged, RestoreBase, Disarm
  <2>2. CASE ReleaseHeld(c) \/ FlushStaged(c)
    <3>1. \/ cpc[c] = "commitRelease" /\ cpc'[c] = "commitFlush"
          \/ cpc[c] = "abortRelease" /\ cpc'[c] = "abortDiscard"
          \/ cpc[c] = "killRelease" /\ cpc'[c] = "killDiscard"
          \/ cpc[c] = "commitFlush" /\ cpc'[c] = "commitEnd"
      BY <1>3, <2>2 DEF ReleaseHeld, FlushStaged
    <3> QED BY <1>4, <2>1, <3>1 DEF Moves
  <2>3. CASE DropStaged(c) \/ RestoreBase(c)
    <3>1. \/ cpc[c] = "abortDiscard" /\ cpc'[c] = "abortRestore"
          \/ cpc[c] = "killDiscard" /\ cpc'[c] = "killEnd"
          \/ cpc[c] = "abortRestore" /\ cpc'[c] \in {"abortEnd", "idle"}
      BY <1>3, <2>3 DEF DropStaged, RestoreBase
    <3> QED BY <1>4, <2>1, <3>1 DEF Moves
  <2>4. CASE Disarm(c)
    <3>1. \/ cpc[c] = "commitEnd" /\ cpc'[c] = "commitClear"
          \/ cpc[c] = "abortEnd" /\ cpc'[c] = "abortClear"
          \/ cpc[c] = "killEnd" /\ cpc'[c] = "idle"
      BY <1>3, <2>4 DEF Disarm
    <3> QED BY <1>4, <2>1, <3>1 DEF Moves
  <2> QED BY <1>12, <2>2, <2>3, <2>4
<1> QED BY <1>5, <1>6, <1>7, <1>8, <1>9, <1>10, <1>11, <1>12 DEF CallerStep, BeginTxn, ResolveTxn

\* No id is the mark of an absent or of a reserved entry.
LEMMA IdsAreIds == Absent \notin TxnIds /\ Reserved \notin TxnIds /\ Absent # Reserved
BY CallersAssumption DEF Absent, Reserved, TxnIds

\* The entry follows a call from each step to the next.
LEMMA MovesFollow ==
  ASSUME NEW p, NEW q, NEW i, NEW j, NEW g, NEW h, Moves(p, q, i, j, g, h), Follows(p, i, g)
  PROVE  Follows(q, j, h)
<1>1. q \in {"mergeCheck", "base", "basing", "stage", "register"} => h = Reserved /\ j \in TxnIds
  BY DEF Moves, Follows
<1>2. q \in {"effects"} \cup ResolvePc => h = j /\ j \in TxnIds
  BY DEF Moves, Follows, ResolvePc
<1>3. q = "unreserve" => h # Absent
  BY IdsAreIds DEF Moves, Follows
<1>4. q \in KillPc => h = Absent
  BY DEF Moves, Follows, KillPc
<1> QED BY <1>1, <1>2, <1>3, <1>4 DEF Follows

\* A call outside begin and resolve does not get there while a merge is marked.
LEMMA MovesExclude ==
  ASSUME NEW p, NEW q, NEW i, NEW j, NEW g, NEW h, Moves(p, q, i, j, g, h), merging = TRUE,
         g \notin TxnIds, p \notin BeginPc \cup ResolvePc
  PROVE  h \notin TxnIds /\ q \notin BeginPc \cup ResolvePc
<1>1. \/ p = "idle" /\ q = "mergeCheck" /\ h = Reserved
      \/ p = "idle" /\ q \in {"idle", "killRelease"} /\ h = Absent
      \/ p = "unreserve" /\ q = "idle" /\ h = Absent
      \/ q \in {"unreserve", "killDiscard", "killEnd", "idle"} /\ h = g
  BY DEF Moves, BeginPc, ResolvePc
<1> QED BY <1>1, IdsAreIds DEF BeginPc, ResolvePc

\* A call keeps the entry in _active_txns, its ids and the merge's window right.
LEMMA CallerEntry ==
  ASSUME OneCaller, TInv, NEW c \in Callers, CallerStep(c)
  PROVE  EntryFollowsCall' /\ TxnMergeExclusion'
<1>1. \A d \in Callers : d = c
  BY DEF OneCaller
<1>2. /\ registered \in {Absent, Reserved} \cup TxnIds /\ serial \in 0..MaxTxns
      /\ cpc \in [Callers -> CallerPc] /\ cid \in [Callers -> 0..MaxTxns]
      /\ EntryFollowsCall /\ TxnMergeExclusion /\ MergeIsMarked
  BY DEF TInv, GInv, TTypeOK
<1>3. UNCHANGED <<merging, gpc>> /\ MaxTxns \in Nat
  BY CallersAssumption DEF CallerStep, mergeVars
<1>4. Moves(cpc[c], cpc'[c], cid[c], cid'[c], registered, registered')
  BY CallMoves
<1>5. Follows(cpc[c], cid[c], registered)
  BY <1>2 DEF EntryFollowsCall
<1>6. Follows(cpc'[c], cid'[c], registered')
  BY <1>4, <1>5, MovesFollow
<1>7. EntryFollowsCall'
  BY <1>1, <1>6 DEF EntryFollowsCall
<1>8. ASSUME gpc = "window"
      PROVE  registered' \notin TxnIds /\ cpc'[c] \notin BeginPc \cup ResolvePc
  <2>1. merging = TRUE /\ registered \notin TxnIds /\ cpc[c] \notin BeginPc \cup ResolvePc
    BY <1>2, <1>8 DEF MergeIsMarked, TxnMergeExclusion, TInv, GInv, TTypeOK
  <2> QED BY <1>4, <2>1, MovesExclude
<1>9. TxnMergeExclusion'
  BY <1>1, <1>3, <1>8 DEF TxnMergeExclusion
<1> QED BY <1>7, <1>9

\* A call mints ids in order and arms staging only for its own.
LEMMA CallerIds ==
  ASSUME OneCaller, TInv, NEW c \in Callers, CallerStep(c)
  PROVE  FreshIds'
<1>1. /\ registered \in {Absent, Reserved} \cup TxnIds /\ serial \in 0..MaxTxns
      /\ cpc \in [Callers -> CallerPc] /\ cid \in [Callers -> 0..MaxTxns]
      /\ owner \in 0..MaxTxns /\ scope \in [Requests -> 0..MaxTxns] /\ FreshIds
  BY DEF TInv, GInv, TTypeOK
<1>2. MaxTxns \in Nat /\ \A d \in Callers : d = c
  BY CallersAssumption DEF OneCaller
<1> USE <1>1, <1>2 DEF FreshIds, CallGoto, txnVars, history, TxnIds, Absent, Reserved
<1>3. CASE Reserve(c)
  BY <1>3 DEF Reserve
<1>4. CASE CheckMerge(c) \/ ReuseBase(c) \/ TakeBase(c) \/ BaseDone(c)
  BY <1>4 DEF CheckMerge, ReuseBase, TakeBase, BaseDone
<1>5. CASE Stage(c) \/ ArmEffects(c)
  BY <1>5 DEF Stage, ArmEffects
<1>6. CASE Register(c) \/ Unreserve(c) \/ ClearTxn(c)
  <2>1. CASE Register(c)
    BY <2>1 DEF Register
  <2>2. CASE Unreserve(c)
    BY <2>2 DEF Unreserve
  <2>3. CASE ClearTxn(c)
    BY <2>3 DEF ClearTxn
  <2> QED BY <1>6, <2>1, <2>2, <2>3
<1>7. CASE Require(c)
  BY <1>7 DEF Require
<1>8. CASE Kill(c)
  BY <1>8 DEF Kill
<1>9. CASE ReleaseHeld(c) \/ FlushStaged(c) \/ DropStaged(c) \/ RestoreBase(c) \/ Disarm(c)
  BY <1>9 DEF ReleaseHeld, FlushStaged, DropStaged, RestoreBase, Disarm
<1> QED BY <1>3, <1>4, <1>5, <1>6, <1>7, <1>8, <1>9 DEF CallerStep, BeginTxn, ResolveTxn

\* Releasing inside a staging scope parks: nothing that was held gets out.
LEMMA ReleaseParks ==
  ASSUME staging, NEW E, Unhold(E)
  PROVE  Held \subseteq Held'
  BY DEF Unhold, Held, Gens

\* A call resolves only the transaction it is about, and that ends the guard.
LEMMA CallerGuard ==
  ASSUME OneCaller, TInv, NEW c \in Callers, CallerStep(c)
  PROVE  GuardHolds'
<1>1. \A d \in Callers : d = c
  BY DEF OneCaller
<1>2. /\ registered \in {Absent, Reserved} \cup TxnIds /\ cid[c] \in 0..MaxTxns
      /\ cpc \in [Callers -> CallerPc] /\ cid \in [Callers -> 0..MaxTxns]
      /\ EntryFollowsCall /\ GuardHolds /\ FreshIds
      /\ gen \in [Requests -> Nat] /\ UNCHANGED <<gen, disposition>>
  BY DEF TInv, GInv, TTypeOK, TypeOK, HandlerTypeOK, CallerStep, handlerVars
<1>3. MaxTxns \in Nat
  BY CallersAssumption
<1> SUFFICES ASSUME NEW t \in TxnIds, Guarded(t)'
             PROVE  /\ staging' /\ owner' = t
                    /\ \A r \in Requests : scope'[r] = t /\ gen'[r] # None
                          => gen'[r] \in Held' \cup dropped' /\ disposition'[r] # "deliver"
  BY DEF GuardHolds, Guarded, None
<1>4. ASSUME Guarded(t), Held \cup dropped \subseteq Held' \cup dropped', UNCHANGED <<staging, owner, scope>>
      PROVE  /\ staging' /\ owner' = t
             /\ \A r \in Requests : scope'[r] = t /\ gen'[r] # None
                   => gen'[r] \in Held' \cup dropped' /\ disposition'[r] # "deliver"
  BY <1>2, <1>4 DEF GuardHolds
<1>5. CASE UNCHANGED gateVars /\ UNCHANGED history
  <2>1. Held' = Held /\ UNCHANGED <<dropped, staging, owner, scope>>
    BY <1>5 DEF gateVars, history, Held, Gens
  <2>2. Guarded(t)
    <3>1. cpc[c] # "stage"
      <4>1. ASSUME Stage(c) PROVE FALSE
        BY <1>2, <1>5, <4>1 DEF Stage, CallGoto, history, FreshIds
      <4>2. cpc[c] = "stage" => Stage(c)
        BY DEF CallerStep, BeginTxn, ResolveTxn, CallGoto, Reserve, CheckMerge, ReuseBase, TakeBase, BaseDone,
               Register, ArmEffects, Unreserve, Require, Kill, ReleaseHeld, FlushStaged, DropStaged,
               RestoreBase, Disarm, ClearTxn
      <4> QED BY <4>1, <4>2
    <3>2. \/ cpc'[c] = "register" /\ cid'[c] = t
          \/ registered' = t /\ cpc'[c] \notin {"commitEnd", "commitClear", "abortEnd", "abortClear"}
      BY <1>1 DEF Guarded
    <3>3. Moves(cpc[c], cpc'[c], cid[c], cid'[c], registered, registered')
      BY CallMoves
    <3>4. t # Absent /\ t # Reserved
      BY <1>3 DEF TxnIds, Absent, Reserved
    <3>5. \/ cpc[c] = "register" /\ cid[c] = t
          \/ registered = t /\ cpc[c] \notin {"commitEnd", "commitClear", "abortEnd", "abortClear"}
      BY <3>1, <3>2, <3>3, <3>4 DEF Moves
    <3> QED BY <1>1, <3>5 DEF Guarded
  <2> QED BY <1>4, <2>1, <2>2
<1>6. CASE Stage(c)
  <2>1. cpc'[c] = "register" /\ UNCHANGED <<registered, cid>> /\ cpc[c] = "stage"
    BY <1>2, <1>6 DEF Stage, CallGoto, txnVars
  <2>2. registered = Reserved
    BY <1>2, <2>1 DEF EntryFollowsCall, Follows
  <2>3. t = cid[c]
    BY <1>1, <2>1, <2>2 DEF Guarded, TxnIds, Reserved
  <2> QED BY <1>2, <1>6, <2>1, <2>2, <2>3 DEF Stage, BeginStaging, FreshIds
<1>7. CASE BaseDone(c) \/ FlushStaged(c) \/ Disarm(c)
  <2>1. /\ cpc[c] \in {"basing", "commitFlush", "commitEnd", "abortEnd", "killEnd"}
        /\ cpc'[c] # "register"
        /\ cpc[c] \notin {"basing", "killEnd"} => cpc'[c] \in {"commitEnd", "commitClear", "abortClear"}
        /\ UNCHANGED <<registered, cid>>
    BY <1>2, <1>7 DEF BaseDone, FlushStaged, Disarm, CallGoto, txnVars
  <2>2. cpc[c] \in {"basing", "killEnd"} => registered \in {Absent, Reserved}
    BY <1>2 DEF EntryFollowsCall, Follows, KillPc
  <2>3. registered # t
    BY <1>1, <1>3, <2>1, <2>2, IdsAreIds DEF Guarded
  <2> QED BY <1>1, <2>1, <2>3 DEF Guarded
<1>8. CASE ReleaseHeld(c) \/ DropStaged(c)
  <2>1. Guarded(t) /\ UNCHANGED <<staging, owner, scope>>
    <3>1. /\ cpc[c] \in {"commitRelease", "abortRelease", "killRelease", "abortDiscard", "killDiscard"}
          /\ cpc'[c] # "register" /\ UNCHANGED <<registered, cid>>
      BY <1>2, <1>8 DEF ReleaseHeld, DropStaged, CallGoto, txnVars
    <3>2. UNCHANGED <<staging, owner, scope>>
      BY <1>8 DEF ReleaseHeld, DropStaged, history, ReleaseAll, Unhold, DiscardStaged
    <3> QED BY <1>1, <3>1, <3>2 DEF Guarded
  <2>2. staging
    BY <1>2, <2>1 DEF GuardHolds
  <2>3. Held \cup dropped \subseteq Held' \cup dropped'
    BY <1>8, <2>2, ReleaseParks
       DEF ReleaseHeld, ReleaseAll, Unhold, DropStaged, DiscardStaged, Held, Gens
  <2> QED BY <1>4, <2>1, <2>3
<1>9. \/ UNCHANGED gateVars /\ UNCHANGED history
      \/ Stage(c) \/ BaseDone(c) \/ FlushStaged(c) \/ Disarm(c) \/ ReleaseHeld(c) \/ DropStaged(c)
  BY DEF CallerStep, BeginTxn, ResolveTxn, Reserve, CheckMerge, ReuseBase, TakeBase, Register, ArmEffects,
         Unreserve, Require, Kill, RestoreBase, ClearTxn
<1> QED BY <1>5, <1>6, <1>7, <1>8, <1>9

\* A request that is armed inside is held; one that wakes up inside was dropped.
LEMMA HandlerGuard ==
  ASSUME TInv, NEW r \in Requests, THandler(r)
  PROVE  GuardHolds' /\ FreshIds'
<1>1. /\ gen \in [Requests -> Nat] /\ scope \in [Requests -> 0..MaxTxns] /\ owner \in 0..MaxTxns
      /\ disposition \in [Requests -> {"none", "deliver", "drop"}] /\ pc \in [Requests -> HandlerPc]
      /\ EarlyHandlers /\ GuardHolds /\ FreshIds /\ IInv
  BY DEF TInv, GInv, TTypeOK, TypeOK, HandlerTypeOK
<1>2. UNCHANGED <<cpc, cid, registered, owner, serial>>
  BY DEF THandler, callVars, txnVars
<1>3. /\ scope' \in [Requests -> 0..MaxTxns]
      /\ \A q \in Requests : scope'[q] = scope[q] \/ (q = r /\ pc[r] = "started" /\ staging /\ scope'[q] = owner)
  BY <1>1 DEF THandler
<1>4. FreshIds'
  BY <1>1, <1>2, <1>3 DEF FreshIds
<1> SUFFICES ASSUME NEW t \in TxnIds, Guarded(t)
             PROVE  /\ staging' /\ owner' = t
                    /\ \A q \in Requests : scope'[q] = t /\ gen'[q] # None
                          => gen'[q] \in Held' \cup dropped' /\ disposition'[q] # "deliver"
  BY <1>2, <1>4 DEF GuardHolds, Guarded, None
<1>5. /\ staging /\ owner = t
      /\ \A q \in Requests : scope[q] = t /\ gen[q] # None
            => gen[q] \in Held \cup dropped /\ disposition[q] # "deliver"
  BY <1>1 DEF GuardHolds
<1>6. CASE QuietStep(r) /\ UNCHANGED gateVars
  <2>1. UNCHANGED <<staging, dropped, gen>> /\ Held' = Held
    BY <1>6 DEF gateVars, Held, Gens, QuietStep, Receive, NotifyArmed, Upstream, Wake, Resolve, NotifyEnding,
                Finish
  <2>2. scope'[r] = scope[r] \/ gen[r] = None
    BY <1>1, <1>3 DEF EarlyHandlers
  <2>3. CASE ~Resolve(r)
    <3>1. UNCHANGED disposition
      BY <1>6, <2>3 DEF QuietStep, Receive, NotifyArmed, Upstream, Wake, NotifyEnding, Finish
    <3> QED BY <1>2, <1>3, <1>5, <2>1, <2>2, <3>1
  <2>4. CASE Resolve(r)
    <3>1. pc[r] = "awake" /\ disposition' = [disposition EXCEPT ![r] = Disposition(gen[r])]
      BY <2>4 DEF Resolve, Goto
    <3>2. gen[r] # None => gen[r] \notin Held
      BY <1>1, <3>1 DEF IInv, PassedStaysReleased, Held
    <3>3. scope[r] = t /\ gen[r] # None => disposition'[r] = "drop"
      BY <1>1, <1>5, <3>1, <3>2 DEF Disposition
    <3> QED BY <1>1, <1>2, <1>3, <1>5, <2>1, <2>2, <3>1, <3>3
  <2> QED BY <2>3, <2>4
<1>7. CASE ArmGate(r)
  <2>1. pc[r] = "started" /\ UNCHANGED disposition
    BY <1>7 DEF ArmGate, Goto
  <2>2. gen[r] = None /\ disposition[r] = "none"
    BY <1>1, <2>1 DEF EarlyHandlers
  <2>3. UNCHANGED <<staging, staged, dropped>> /\ Held \subseteq Held'
    <3>1. UNCHANGED <<staging, staged, dropped>>
      BY <1>7 DEF ArmGate, Arm, gateVars
    <3> QED BY <1>1, <1>7, <3>1, ArmForward DEF Held
  <2>4. \/ gen' = gen
        \/ \E g \in Nat : gen' = [gen EXCEPT ![r] = g] /\ (g = None \/ g \in Gens(pending'))
    <3>1. ASSUME NEW g, ArmJoin(r, g) PROVE g \in Gens(pending')
      <4>1. PICK x \in Joinable(r) : g = x.gen /\ pending' = (pending \ {x}) \cup {[x EXCEPT !.ids = @ \cup {r}]}
        BY <3>1 DEF ArmJoin
      <4>2. x \in Entry
        BY <1>1 DEF Joinable, IInv, GateInv, GateTypeOK
      <4>3. [x EXCEPT !.ids = @ \cup {r}].gen = x.gen
        BY <4>2 DEF Entry
      <4> QED BY <4>1, <4>3 DEF Gens
    <3>2. ASSUME NEW g, ArmNew(r, g) PROVE g \in Gens(pending')
      <4>1. [gen |-> g, primary |-> r, ids |-> {r}, group |-> GroupOf[r]] \in pending'
        BY <3>2 DEF ArmNew
      <4>2. \E e \in pending' : e.gen = g
        BY <4>1
      <4> QED BY <4>2 DEF Gens
    <3>3. generation \in Nat
      BY <1>1 DEF IInv, GateInv, GateTypeOK
    <3> QED BY <1>7, <3>1, <3>2, <3>3 DEF ArmGate, Arm
  <2>5. \A q \in Requests : q # r => scope'[q] = scope[q] /\ gen'[q] = gen[q]
    BY <1>1, <1>3, <2>4
  <2>6. gen'[r] = None \/ gen'[r] \in Held'
    BY <1>1, <2>2, <2>4 DEF Held
  <2> QED BY <1>2, <1>5, <2>1, <2>2, <2>3, <2>5, <2>6
<1> QED BY <1>6, <1>7 DEF THandler, HandlerStep, QuietStep

\* A merge leaves the transactions alone and opens its window only when there
\* is no entry.
LEMMA MergeTInv ==
  ASSUME TInv, Merge, UNCHANGED <<vars, callVars, txnVars, history>>
  PROVE  EntryFollowsCall' /\ MergeIsMarked' /\ FreshIds' /\ TxnMergeExclusion' /\ GuardHolds'
<1>1. /\ UNCHANGED <<pending, staging, staged, dropped, gen, disposition>>
      /\ UNCHANGED <<registered, serial, cpc, cid, owner, scope>>
  BY DEF vars, gateVars, handlerVars, callVars, txnVars, history
<1>2. EntryFollowsCall' /\ FreshIds' /\ GuardHolds'
  BY <1>1 DEF TInv, EntryFollowsCall, FreshIds, GuardHolds, Guarded, Held, Gens
<1>3. MergeIsMarked'
  BY DEF TInv, MergeIsMarked, Merge, EnterMerge, CheckTxn, CloseWindow, LeaveMerge, MergeGoto
<1>4. TxnMergeExclusion'
  <2>1. CASE gpc' = "window"
    <3>1. registered = Absent
      BY <2>1 DEF TInv, Merge, EnterMerge, CheckTxn, CloseWindow, LeaveMerge, MergeGoto
    <3>2. ASSUME NEW c \in Callers, cpc[c] \in BeginPc \cup ResolvePc
          PROVE  FALSE
      <4>1. registered # Absent
        <5>1. Follows(cpc[c], cid[c], registered)
          BY DEF TInv, EntryFollowsCall
        <5> QED BY <3>2, <5>1 DEF Follows, BeginPc, ResolvePc, Absent, Reserved, TxnIds
      <4> QED BY <3>1, <4>1
    <3> QED BY <1>1, <3>1, <3>2, CallersAssumption DEF TxnMergeExclusion, Absent, TxnIds
  <2> QED BY <2>1 DEF TxnMergeExclusion
<1> QED BY <1>2, <1>3, <1>4

\* A release by a pass that was under way, or by a manual checkpoint, parks.
LEMMA OtherTInv ==
  ASSUME TInv, OtherRelease
  PROVE  EntryFollowsCall' /\ MergeIsMarked' /\ FreshIds' /\ TxnMergeExclusion' /\ GuardHolds'
<1>1. /\ UNCHANGED <<gen, disposition, merging, gpc>>
      /\ UNCHANGED <<registered, serial, cpc, cid, owner, scope>>
  BY DEF OtherRelease, handlerVars, callVars, txnVars, mergeVars, history
<1>2. \E E : Unhold(E)
  BY DEF OtherRelease, ReleasePending, ReleaseAll
<1>3. UNCHANGED <<staging, dropped>> /\ (staging => Held \subseteq Held')
  BY <1>2, ReleaseParks DEF Unhold
<1>4. GuardHolds'
  BY <1>1, <1>3 DEF TInv, GuardHolds, Guarded
<1> QED BY <1>1, <1>4 DEF TInv, EntryFollowsCall, MergeIsMarked, FreshIds, TxnMergeExclusion

\* One step with one caller.
LEMMA TStep ==
  ASSUME OneCaller, TInv, [TNext]_tvars
  PROVE  TInv'
<1>1. GInv' /\ EarlyHandlers'
  BY GStep, EarlyStep DEF TInv
<1> SUFFICES EntryFollowsCall' /\ MergeIsMarked' /\ FreshIds' /\ TxnMergeExclusion' /\ GuardHolds'
  BY <1>1 DEF TInv
<1>2. ASSUME NEW r \in Requests, THandler(r)
      PROVE  EntryFollowsCall' /\ MergeIsMarked' /\ FreshIds' /\ TxnMergeExclusion' /\ GuardHolds'
  <2>1. FreshIds' /\ GuardHolds'
    BY <1>2, HandlerGuard
  <2> QED BY <1>2, <2>1 DEF TInv, THandler, callVars, txnVars, mergeVars, EntryFollowsCall, MergeIsMarked,
                            TxnMergeExclusion
<1>3. ASSUME NEW c \in Callers, CallerStep(c)
      PROVE  EntryFollowsCall' /\ MergeIsMarked' /\ FreshIds' /\ TxnMergeExclusion' /\ GuardHolds'
  <2>1. MergeIsMarked'
    BY <1>3 DEF CallerStep, mergeVars, TInv, MergeIsMarked
  <2> QED BY <1>3, <2>1, CallerEntry, CallerIds, CallerGuard
<1>4. CASE UNCHANGED tvars
  BY <1>4 DEF tvars, vars, gateVars, handlerVars, callVars, txnVars, mergeVars, history, TInv, EntryFollowsCall,
              MergeIsMarked, FreshIds, TxnMergeExclusion, GuardHolds, Guarded, Held, Gens
<1> QED BY <1>2, <1>3, <1>4, MergeTInv, OtherTInv DEF TNext, CallerStep

\* The inductive invariant of transactions whose client calls in turn.
THEOREM TransactionInvariance ==
  ASSUME OneCaller
  PROVE  TSpec => []TInv
<1>1. TInv /\ [TNext]_tvars => TInv'
  BY TStep
<1> QED BY <1>1, TInitInv, PTL DEF TSpec

\* begin_txn enters its registry and then looks at the merges, merge_from_fork
\* the other way round: they never both get past their checks.
THEOREM TxnsExcludeMerges ==
  ASSUME OneCaller
  PROVE  TSpec => []TxnMergeExclusion
<1>1. TInv => TxnMergeExclusion
  BY DEF TInv
<1> QED BY <1>1, TransactionInvariance, PTL

\* Nothing gated escapes an uncommitted transaction, whatever coordination
\* passes and manual checkpoints release meanwhile.
THEOREM TransactionsContain ==
  ASSUME OneCaller
  PROVE  TSpec => []NothingEscapesOpenTxn
<1>1. ASSUME TInv, NEW r \in Requests, gen[r] # None, scope[r] \in TxnIds, Open(scope[r])
      PROVE  disposition[r] # "deliver"
  <2>1. Guarded(scope[r])
    BY <1>1 DEF Open, Guarded, TInv, EntryFollowsCall, Follows, ResolvePc
  <2> QED BY <1>1, <2>1 DEF TInv, GuardHolds
<1>2. TInv => NothingEscapesOpenTxn
  BY <1>1 DEF NothingEscapesOpenTxn
<1> QED BY <1>2, TransactionInvariance, PTL
=============================================================================
